---------------------------- MODULE Spec2Model ----------------------------
(***************************************************************************)
(* Model of the resume document-surgery engine (tools/section_updater.py   *)
(* and the normalizer / sanitizer of tools/resume_helpers.py).             *)
(*                                                                         *)
(* A text is a sequence of lexemes; each lexeme is the literal string it   *)
(* stands for, so the text a sequence denotes is the concatenation of its  *)
(* elements.  Every regular expression of the source is translated to the  *)
(* lexeme level; the input sets below are built from lexemes on whose      *)
(* boundaries every match of those expressions starts and ends.            *)
(***************************************************************************)
EXTENDS Naturals, Sequences, FiniteSets, TLC

VARIABLES
    original_resume,   \* text of the original resume file
    agent_sections,    \* section map parsed from the agent output: <<[name, content]>>
    updated_sections,  \* the map after _post_process_sections
    output_file,       \* text of the file at output_path, NoFile when absent
    latex,             \* local `latex` of the function currently running
    idx,               \* position of merge_sections' loop in the map (1-based)
    merge_result,      \* value returned by merge_sections
    extracted,         \* value returned by extract_section
    pc,                \* position in the flow
    validation,        \* value returned by validate_latex
    preflight_error,   \* value returned by preflight_resume
    jobs,              \* ResumeService.jobs: job id -> job record
    files,             \* the output directory: path -> text of the file
    threads,           \* per job, the position and locals of its process_job call
    response,          \* the last response of a status route
    logs_store,        \* LogCaptureHandler: logs_store[job_id], the captured entries
    records,           \* the records handed to emit for the job's list so far
    emits              \* number of emit calls on the LogCaptureHandler

engineVars == <<original_resume, agent_sections, updated_sections, output_file,
                latex, idx, merge_result, extracted, pc>>
toolVars == <<validation, preflight_error>>
serviceVars == <<jobs, files, threads>>
apiVars == <<response, logs_store, records, emits>>

vars == <<engineVars, toolVars, serviceVars, apiVars>>

\* The values of the variables a flow does not use.
InitTools == validation = <<>> /\ preflight_error = <<>>
InitService == jobs = <<>> /\ files = <<>> /\ threads = <<>>
InitApi == response = <<>> /\ logs_store = <<>> /\ records = <<>> /\ emits = 0

-----------------------------------------------------------------------------
(* Lexemes *)

NL == "\n"
SP == " "
EndDocument == "\\end{document}"
BeginDocument == "\\begin{document}"
ResumeEntryEnd == "\\resumeEntryEnd"
ResumeEntryStart == "\\resumeEntryStart"
ResumeEntryS == "\\resumeEntryS{"
TextbfOpen == "\\textbf{"
CloseBrace == "}"
ErrorWord == "Error"
OpenBrace == "{"
OpenBracket == "["
CloseBracket == "]"
BeginItemize == "\\begin{itemize}"
EndItemize == "\\end{itemize}"
BeginTabularStar == "\\begin{tabular*}"
HrefOk == "\\href{u}{t}"
HrefBare == "\\href "

PS == "Professional Summary"
TP == "Technical Proficiencies"
PE == "Professional Experience"
ED == "Education"
SUBTITLE == "subtitle"

SectionNames == {PS, TP, PE, ED}

\* The header \section{<icon>}{<name>} of a section.
Header(name) ==
    CASE name = PS -> "\\section{\\faUser}{Professional Summary}"
      [] name = TP -> "\\section{\\faCogs}{Technical Proficiencies}"
      [] name = PE -> "\\section{\\faBriefcase}{Professional Experience}"
      [] name = ED -> "\\section{\\faGraduationCap}{Education}"

\* A header whose name differs from Professional Summary in letter case only.
HeaderLower == "\\section{\\faUser}{professional summary}"

Headers == {Header(n) : n \in SectionNames} \cup {HeaderLower}

\* f'\\def \\subtitle {{{new_subtitle}}}' for the subtitle texts of the model.
SubtitleDef(value) ==
    CASE value = <<"Engineer">> -> "\\def \\subtitle {Engineer}"
      [] value = <<"Analyst">> -> "\\def \\subtitle {Analyst}"

SubtitleValues == {<<"Engineer">>, <<"Analyst">>}
SubtitleDefs == {SubtitleDef(v) : v \in SubtitleValues}

\* Stray labels the generator echoes (the alternation of the label regexes).
Labels == {"SUBTITLE:", "PROFESSIONAL SUMMARY:", "TECHNICAL PROFICIENCIES:",
           "OPTIONAL EXPERIENCE:"}

NoFile == <<"<no file>">>

-----------------------------------------------------------------------------
(* String primitives *)

IsWs(t) == t \in {NL, SP}

Min(S) == CHOOSE x \in S : \A y \in S : x <= y
Max(S) == CHOOSE x \in S : \A y \in S : x >= y

\* s[from..to], empty when from > to.
Slice(s, from, to) == IF from > to THEN <<>> ELSE SubSeq(s, from, to)

\* Index of the first element at or after `from` that is in T, 0 when none
\* (re.search over a slice / str.find).
Find(s, T, from) ==
    LET I == {i \in from..Len(s) : s[i] \in T}
    IN  IF I = {} THEN 0 ELSE Min(I)

LStrip(s) ==
    LET I == {i \in 1..Len(s) : ~IsWs(s[i])}
    IN  IF I = {} THEN <<>> ELSE Slice(s, Min(I), Len(s))

RStrip(s) ==
    LET I == {i \in 1..Len(s) : ~IsWs(s[i])}
    IN  IF I = {} THEN <<>> ELSE Slice(s, 1, Max(I))

\* str.strip()
Strip(s) == LStrip(RStrip(s))

\* str.startswith("Error")
StartsWithError(s) == Len(s) > 0 /\ s[1] = ErrorWord

\* All sequences over A of length at most n.
SeqsUpTo(A, n) == UNION {[1..k -> A] : k \in 0..n}

-----------------------------------------------------------------------------
(* tools/section_updater.py *)

\* re.search(section_pattern, text): index of the first header of `name`, 0 when none.
SectionStart(text, name) == Find(text, {Header(name)}, 1)

\* A variant of SectionEnd that prefers \end{document} to the next header.
SectionEndAtMarker(text, start) ==
    LET next_section == Find(text, Headers, start + 1)
        end_match == Find(text, {EndDocument}, start)
    IN  IF end_match # 0 THEN end_match
        ELSE IF next_section # 0 THEN next_section
        ELSE Len(text) + 1

\* End (exclusive) of the span that starts at header index `start`: the next
\* header of any name after the match, else \end{document}, else the end.
SectionEnd(text, start) ==
    LET next_section == Find(text, Headers, start + 1)
        end_match == Find(text, {EndDocument}, start)
    IN  IF next_section # 0 THEN next_section
        ELSE IF end_match # 0 THEN end_match
        ELSE Len(text) + 1

SectionNotFound(name) == <<"Section '", name, "' not found in resume">>

extract_section(latex_content, section_name) ==
    LET start_pos == SectionStart(latex_content, section_name)
    IN  IF start_pos = 0 THEN SectionNotFound(section_name)
        ELSE Strip(Slice(latex_content, start_pos,
                         SectionEnd(latex_content, start_pos) - 1))

ReplaceError(name) == <<ErrorWord, ": Section '", name, "' not found">>

\* Variants of replace_section that the properties below must tell from it:
\* one that appends nothing to the new content, one that returns the document
\* unchanged when the header is missing.
replace_section_bare(original_latex, section_name, new_section_latex) ==
    LET start_pos == SectionStart(original_latex, section_name)
        end_pos == SectionEnd(original_latex, start_pos)
    IN  IF start_pos = 0 THEN ReplaceError(section_name)
        ELSE Slice(original_latex, 1, start_pos - 1)
             \o new_section_latex
             \o Slice(original_latex, end_pos, Len(original_latex))

replace_section_skipping(original_latex, section_name, new_section_latex) ==
    LET start_pos == SectionStart(original_latex, section_name)
        end_pos == SectionEnd(original_latex, start_pos)
    IN  IF start_pos = 0 THEN original_latex
        ELSE Slice(original_latex, 1, start_pos - 1)
             \o new_section_latex \o <<NL, NL>>
             \o Slice(original_latex, end_pos, Len(original_latex))

replace_section(original_latex, section_name, new_section_latex) ==
    LET start_pos == SectionStart(original_latex, section_name)
        end_pos == SectionEnd(original_latex, start_pos)
    IN  IF start_pos = 0 THEN ReplaceError(section_name)
        ELSE Slice(original_latex, 1, start_pos - 1)
             \o new_section_latex \o <<NL, NL>>
             \o Slice(original_latex, end_pos, Len(original_latex))

SubtitleError == <<ErrorWord, ": Could not find \\subtitle definition">>

\* re.sub of every \def \subtitle {...} by the definition of the new value.
SubSubtitle(text, new_subtitle) ==
    [i \in 1..Len(text) |->
        IF text[i] \in SubtitleDefs THEN SubtitleDef(new_subtitle) ELSE text[i]]

\* A variant of update_subtitle that inserts a definition when it finds none.
update_subtitle_inserting(latex_content, new_subtitle) ==
    LET updated == SubSubtitle(latex_content, new_subtitle)
    IN  IF updated = latex_content
        THEN <<SubtitleDef(new_subtitle), NL>> \o latex_content
        ELSE updated

update_subtitle(latex_content, new_subtitle) ==
    LET updated == SubSubtitle(latex_content, new_subtitle)
    IN  IF updated = latex_content THEN SubtitleError ELSE updated

-----------------------------------------------------------------------------
(* tools/resume_helpers.py: the normalizer (_post_process_sections) *)

\* The label lexeme that rf"^\s*{re.escape(label)}\s*:\s*" matches (IGNORECASE).
LabelOf(label) ==
    CASE label = TP -> "TECHNICAL PROFICIENCIES:"
      [] label = PS -> "PROFESSIONAL SUMMARY:"
      [] OTHER -> "<no label>"

NoLabel == "<none>"

\* Lexemes whose first / last character is a word character (\b of the regexes).
WordLexemes == {"5", "years", "of", "Go", "Python", ErrorWord, "Engineer", "Analyst"}
StartsWord(t) == t \in WordLexemes \cup Labels
EndsWord(t) == t \in WordLexemes \cup {ResumeEntryEnd, ResumeEntryStart}

_strip_label_prefix(text0, label) ==
    LET \* re.sub(rf"^\s*{label}\s*:\s*", "", text)
        lead == LStrip(text0)
        text1 == IF label # NoLabel /\ Len(lead) > 0 /\ lead[1] = LabelOf(label)
                 THEN LStrip(Tail(lead)) ELSE text0
        \* re.sub(r"\s+(SUBTITLE|...)\s*:\s*$", "", text)
        r == RStrip(text1)
        n == Len(r)
        text2 == IF n >= 2 /\ r[n] \in Labels /\ IsWs(r[n - 1])
                 THEN RStrip(Slice(r, 1, n - 1)) ELSE text1
        section_idx == Find(text2, Headers, 1)
    IN  IF section_idx > 1 THEN Slice(text2, section_idx, Len(text2)) ELSE text2

\* Lexemes that contain a '}' ([^}]* stops at them).
HasCloseBrace(t) ==
    t \in {CloseBrace, EndDocument, BeginDocument} \cup Headers \cup SubtitleDefs

\* re.sub(r"\\textbf\{([^}]*)\}", r"\1", text): one left-to-right pass.
RECURSIVE StripTextbfFrom(_, _)
StripTextbfFrom(text, i) ==
    IF i > Len(text) THEN <<>>
    ELSE LET close == {j \in (i + 1)..Len(text) : HasCloseBrace(text[j])}
             j == IF close = {} THEN 0 ELSE Min(close)
         IN  IF text[i] = TextbfOpen /\ j # 0 /\ text[j] = CloseBrace
             THEN Slice(text, i + 1, j - 1) \o StripTextbfFrom(text, j + 1)
             ELSE <<text[i]>> \o StripTextbfFrom(text, i + 1)

_strip_textbf(text) == StripTextbfFrom(text, 1)

\* End (inclusive) of the run of lexemes in T that starts at i; i - 1 when text[i] is not in T.
RECURSIVE RunEnd(_, _, _)
RunEnd(text, T, i) ==
    IF i <= Len(text) /\ text[i] \in T THEN RunEnd(text, T, i + 1) ELSE i - 1

Ws == {NL, SP}

\* Index of the last lexeme of the match of
\*   \b\d+\s*\+?\s*(?:years?|yrs?)\b(?:\s+of)?
\* that starts at i, 0 when there is none.
YearCountEnd(text, i) ==
    IF ~(text[i] = "5" /\ (i = 1 \/ ~EndsWord(text[i - 1]))) THEN 0
    ELSE LET d == RunEnd(text, {"5"}, i)
             a == RunEnd(text, Ws, d + 1)
             b == IF a < Len(text) /\ text[a + 1] = "+" THEN a + 1 ELSE a
             c == RunEnd(text, Ws, b + 1)
             y == c + 1
             w == RunEnd(text, Ws, y + 1)
         IN  IF y <= Len(text) /\ text[y] = "years"
                /\ (y = Len(text) \/ ~StartsWord(text[y + 1]))
             THEN IF w > y /\ w < Len(text) /\ text[w + 1] = "of" THEN w + 1 ELSE y
             ELSE 0

RECURSIVE RemoveYearsFrom(_, _)
RemoveYearsFrom(text, i) ==
    IF i > Len(text) THEN <<>>
    ELSE LET e == YearCountEnd(text, i)
         IN  IF e # 0 THEN RemoveYearsFrom(text, e + 1)
             ELSE <<text[i]>> \o RemoveYearsFrom(text, i + 1)

\* re.sub(r"\s{2,}", " ", text)
RECURSIVE CollapseSpaces(_, _)
CollapseSpaces(text, i) ==
    IF i > Len(text) THEN <<>>
    ELSE LET e == RunEnd(text, Ws, i)
         IN  IF e > i THEN <<SP>> \o CollapseSpaces(text, e + 1)
             ELSE <<text[i]>> \o CollapseSpaces(text, i + 1)

_remove_year_counts(text) == Strip(CollapseSpaces(RemoveYearsFrom(text, 1), 1))

\* re.sub(r"\s*<cmd>", pre + cmd, text), with a trailing \s* when eat_after:
\* `pend` is the run of input whitespace not yet emitted.
RECURSIVE SubCommand(_, _, _, _, _, _, _)
SubCommand(text, i, pend, T, pre, post, eat_after) ==
    IF i > Len(text) THEN pend
    ELSE IF text[i] \in T
         THEN pre \o <<text[i]>> \o post
              \o SubCommand(text,
                            IF eat_after THEN RunEnd(text, Ws, i + 1) + 1 ELSE i + 1,
                            <<>>, T, pre, post, eat_after)
    ELSE IF IsWs(text[i])
         THEN SubCommand(text, i + 1, Append(pend, text[i]), T, pre, post, eat_after)
    ELSE pend \o <<text[i]>> \o SubCommand(text, i + 1, <<>>, T, pre, post, eat_after)

\* re.sub(r"\n{3,}", "\n\n", text)
RECURSIVE CollapseNewlines(_, _)
CollapseNewlines(text, i) ==
    IF i > Len(text) THEN <<>>
    ELSE LET e == RunEnd(text, {NL}, i)
         IN  IF e >= i + 2 THEN <<NL, NL>> \o CollapseNewlines(text, e + 1)
             ELSE <<text[i]>> \o CollapseNewlines(text, i + 1)

_normalize_latex_commands(text) ==
    LET t1 == SubCommand(text, 1, <<>>, Headers, <<NL>>, <<>>, FALSE)
        t2 == SubCommand(t1, 1, <<>>, {ResumeEntryStart}, <<NL, SP>>, <<NL>>, TRUE)
        t3 == SubCommand(t2, 1, <<>>, {ResumeEntryS}, <<NL, SP, SP>>, <<>>, FALSE)
        t4 == SubCommand(t3, 1, <<>>, {ResumeEntryEnd}, <<NL, SP>>, <<NL>>, TRUE)
    IN  Strip(CollapseNewlines(t4, 1))

\* The body of _post_process_sections' loop for one entry of the map.
NormalizeSection(name, content) ==
    LET text == Strip(content)
    IN  IF name = TP
        THEN _normalize_latex_commands(_strip_textbf(_strip_label_prefix(text, TP)))
        ELSE IF name = PS
        THEN _normalize_latex_commands(_remove_year_counts(text))
        ELSE _normalize_latex_commands(_strip_label_prefix(text, NoLabel))

_post_process_sections(sections) ==
    [i \in 1..Len(sections) |->
        [name |-> sections[i].name,
         content |-> NormalizeSection(sections[i].name, sections[i].content)]]

-----------------------------------------------------------------------------
(* tools/resume_helpers.py: the post-merge sanitizer (_post_merge_cleanup) *)

\* re.sub(r"(\\resumeEntryEnd)\s+(SUBTITLE|...)\s*:", r"\1", latex)
RECURSIVE StripLabelsAfterEntryEnd(_, _)
StripLabelsAfterEntryEnd(text, i) ==
    IF i > Len(text) THEN <<>>
    ELSE LET w == RunEnd(text, Ws, i + 1)
         IN  IF text[i] = ResumeEntryEnd /\ w > i /\ w < Len(text)
                /\ text[w + 1] \in Labels
             THEN <<text[i]>> \o StripLabelsAfterEntryEnd(text, w + 2)
             ELSE <<text[i]>> \o StripLabelsAfterEntryEnd(text, i + 1)

\* re.sub(r"(SUBTITLE|...)\s*:\s*(?=\\section\{)", "", latex)
RECURSIVE StripLabelsBeforeSection(_, _)
StripLabelsBeforeSection(text, i) ==
    IF i > Len(text) THEN <<>>
    ELSE LET w == RunEnd(text, Ws, i + 1)
         IN  IF text[i] \in Labels /\ w < Len(text) /\ text[w + 1] \in Headers
             THEN StripLabelsBeforeSection(text, w + 1)
             ELSE <<text[i]>> \o StripLabelsBeforeSection(text, i + 1)

StripStrayLabels(text) ==
    StripLabelsBeforeSection(StripLabelsAfterEntryEnd(text, 1), 1)

\* End (exclusive) of the block the pattern
\*   (\\section\{[^}]*\}\{<name>\}.*?)(?=\\section\{[^}]*\}\{|\\end\{document\})
\* matches from the header at `start`: the next header or \end{document};
\* 0 when neither follows (the lookahead fails and there is no match).
BlockEnd(text, start) == Find(text, Headers \cup {EndDocument}, start + 1)

\* Starts of the matches of pattern.finditer(latex).
BlockStarts(text, section_name) ==
    {i \in 1..Len(text) : text[i] = Header(section_name) /\ BlockEnd(text, i) # 0}

\* text without its elements at the indices in Removed.
RECURSIVE Without(_, _, _)
Without(text, Removed, i) ==
    IF i > Len(text) THEN <<>>
    ELSE (IF i \in Removed THEN <<>> ELSE <<text[i]>>) \o Without(text, Removed, i + 1)

_remove_duplicate_sections(text, section_name) ==
    LET matches == BlockStarts(text, section_name)
        keep == Min(matches)
        Removed == UNION {i..(BlockEnd(text, i) - 1) : i \in matches \ {keep}}
    IN  IF Cardinality(matches) <= 1 THEN text ELSE Without(text, Removed, 1)

\* pattern.search(latex): start of the first block of the section, 0 when none.
_find_section_block(text, section_name) ==
    LET matches == BlockStarts(text, section_name)
    IN  IF matches = {} THEN 0 ELSE Min(matches)

_reposition_section_after(text, section_name, anchor_section_name) ==
    LET section_match == _find_section_block(text, section_name)
        section_end == BlockEnd(text, section_match)
        section_block == Slice(text, section_match, section_end - 1)
        latex_without_section ==
            Slice(text, 1, section_match - 1) \o Slice(text, section_end, Len(text))
        anchor_match == _find_section_block(latex_without_section, anchor_section_name)
        insert_idx == BlockEnd(latex_without_section, anchor_match)
        inserted_block ==
            <<NL>> \o section_block
            \o (IF section_block[Len(section_block)] = NL THEN <<>> ELSE <<NL>>)
    IN  IF section_match = 0 THEN text
        ELSE IF anchor_match = 0 THEN text
        ELSE Slice(latex_without_section, 1, insert_idx - 1)
             \o inserted_block
             \o Slice(latex_without_section, insert_idx, Len(latex_without_section))

\* The text _post_merge_cleanup writes back for the text it read.
CleanupText(text) ==
    _reposition_section_after(
        _remove_duplicate_sections(StripStrayLabels(text), TP), TP, PE)

-----------------------------------------------------------------------------
(* Input sets *)

MaxSections == 3   \* sections of a resume of the engine flow
MaxKeys == 3       \* keys of a section map
MaxLocLen == 5     \* lexemes of a document handed to the locator
MaxSanLen == 5     \* lexemes of a document handed to the sanitizer
MaxStrayLen == 3   \* lexemes of a document with stray labels
MaxTextLen == 6    \* lexemes of a raw replacement text
MaxEchoLen == 4    \* lexemes of a raw text with echoed labels

DocumentClass == "\\documentclass{article}"

\* Sequences over S without repetition, of length at most n.
Arrangements(S, n) ==
    {s \in SeqsUpTo(S, n) : \A i, j \in 1..Len(s) : i # j => s[i] # s[j]}

RECURSIVE Flatten(_)
Flatten(ss) == IF ss = <<>> THEN <<>> ELSE Head(ss) \o Flatten(Tail(ss))

SectionText(name) == <<Header(name), NL, "Go", NL, NL>>

Preambles ==
    {<<DocumentClass, NL, SubtitleDef(<<"Engineer">>), NL, BeginDocument, NL>>,
     <<DocumentClass, NL, BeginDocument, NL>>}

\* Resumes of the engine flow: a preamble, up to MaxSections distinct sections,
\* the end marker.
Resumes ==
    {pre \o Flatten([i \in 1..Len(layout) |-> SectionText(layout[i])])
         \o <<EndDocument, NL>> :
        pre \in Preambles, layout \in Arrangements(SectionNames, MaxSections)}

\* Raw texts the generator returns for a key: the section alone, or the
\* section after a line of commentary; a new subtitle; for Professional
\* Experience also a section cut off inside an entry.
RawContents(key) ==
    IF key = SUBTITLE THEN SubtitleValues
    ELSE {<<Header(key), NL, "Python">>,
          <<"Go", SP, Header(key), NL, "Python">>}
         \cup (IF key = PE THEN {<<Header(key), NL, ResumeEntryS, "Python">>} ELSE {})

\* parse_sections fills its dict in this order, so every map it returns
\* lists its keys in it.
KeyOrder == <<SUBTITLE, PS, TP, PE>>

\* Maps over the keys KeyOrder[i], KeyOrder[i+1], ... with at most n entries.
RECURSIVE MapsFrom(_, _)
MapsFrom(i, n) ==
    IF i > Len(KeyOrder) THEN {<<>>}
    ELSE MapsFrom(i + 1, n)
         \cup (IF n = 0 THEN {}
               ELSE {<<[name |-> KeyOrder[i], content |-> c]>> \o m :
                        c \in RawContents(KeyOrder[i]), m \in MapsFrom(i + 1, n - 1)})

\* Section maps: the non-empty blocks parse_sections found, at most MaxKeys.
RawMaps == MapsFrom(1, MaxKeys)

Keys(sections) == {sections[i].name : i \in 1..Len(sections)}

-----------------------------------------------------------------------------
(* The engine flow: copy, normalize, merge, sanitize
   (tailor_resume_sections steps 3, 6, 7 and _post_merge_cleanup), with
   merge_sections called with the three parameters it declares:
   merge_sections(output_path, updated_sections, output_path). *)

Init ==
    /\ original_resume \in Resumes
    /\ agent_sections \in RawMaps
    /\ updated_sections = <<>>
    /\ output_file = NoFile
    /\ latex = <<>>
    /\ idx = 0
    /\ merge_result = <<>>
    /\ extracted = <<>>
    /\ pc = "start"
    /\ InitTools /\ InitService /\ InitApi

\* shutil.copy2(original_resume_path, output_path)
CopyOriginal ==
    /\ pc = "start"
    /\ output_file' = original_resume
    /\ pc' = "copied"
    /\ UNCHANGED <<original_resume, agent_sections, updated_sections, latex, idx,
                   merge_result, extracted>>
    /\ UNCHANGED <<toolVars, serviceVars, apiVars>>

\* parse_sections: return _post_process_sections(cleaned_sections)
ParseSections ==
    /\ pc = "copied"
    /\ updated_sections' = _post_process_sections(agent_sections)
    /\ pc' = "parsed"
    /\ UNCHANGED <<original_resume, agent_sections, output_file, latex, idx,
                   merge_result, extracted>>
    /\ UNCHANGED <<toolVars, serviceVars, apiVars>>

FileError == <<ErrorWord, ": [Errno 2] No such file or directory">>

HasKey(sections, key) == \E i \in 1..Len(sections) : sections[i].name = key
ValueOf(sections, key) ==
    sections[CHOOSE i \in 1..Len(sections) : sections[i].name = key].content

\* merge_sections up to its loop: read original_file (here the copy at
\* output_path), update the subtitle if the map has one.
MergeBegin ==
    /\ pc = "parsed"
    /\ LET read == output_file
           updated == IF HasKey(updated_sections, SUBTITLE)
                      THEN update_subtitle(read, ValueOf(updated_sections, SUBTITLE))
                      ELSE read
       IN  IF output_file = NoFile
           THEN /\ merge_result' = FileError
                /\ pc' = "merged"
                /\ UNCHANGED <<latex, idx>>
           ELSE IF HasKey(updated_sections, SUBTITLE) /\ StartsWithError(updated)
           THEN /\ latex' = updated
                /\ merge_result' = updated
                /\ pc' = "merged"
                /\ UNCHANGED idx
           ELSE /\ latex' = updated
                /\ idx' = 1
                /\ pc' = "merge_loop"
                /\ UNCHANGED merge_result
    /\ UNCHANGED <<original_resume, agent_sections, updated_sections, output_file,
                   extracted>>
    /\ UNCHANGED <<toolVars, serviceVars, apiVars>>

\* A variant of the loop iteration that saves the partially merged text when
\* it stops at a missing section.
MergeReplaceSavingPartial ==
    /\ pc = "merge_loop"
    /\ idx <= Len(updated_sections)
    /\ LET section_name == updated_sections[idx].name
           replaced == replace_section(latex, section_name, updated_sections[idx].content)
       IN  IF section_name = SUBTITLE
           THEN /\ idx' = idx + 1
                /\ UNCHANGED <<latex, merge_result, pc, output_file>>
           ELSE IF StartsWithError(replaced)
           THEN /\ latex' = replaced
                /\ merge_result' = replaced
                /\ output_file' = latex
                /\ pc' = "merged"
                /\ UNCHANGED idx
           ELSE /\ latex' = replaced
                /\ idx' = idx + 1
                /\ UNCHANGED <<merge_result, pc, output_file>>
    /\ UNCHANGED <<original_resume, agent_sections, updated_sections, extracted>>
    /\ UNCHANGED <<toolVars, serviceVars, apiVars>>

\* One iteration of `for section_name, new_content in updated_sections.items()`.
MergeReplace ==
    /\ pc = "merge_loop"
    /\ idx <= Len(updated_sections)
    /\ LET section_name == updated_sections[idx].name
           replaced == replace_section(latex, section_name, updated_sections[idx].content)
       IN  IF section_name = SUBTITLE
           THEN /\ idx' = idx + 1
                /\ UNCHANGED <<latex, merge_result, pc>>
           ELSE IF StartsWithError(replaced)
           THEN /\ latex' = replaced
                /\ merge_result' = replaced
                /\ pc' = "merged"
                /\ UNCHANGED idx
           ELSE /\ latex' = replaced
                /\ idx' = idx + 1
                /\ UNCHANGED <<merge_result, pc>>
    /\ UNCHANGED <<original_resume, agent_sections, updated_sections, output_file,
                   extracted>>
    /\ UNCHANGED <<toolVars, serviceVars, apiVars>>

\* text.count('{') and text.count('}')
OpenBraces(t) ==
    IF t \in Headers \cup {HrefOk} THEN 2
    ELSE IF t \in {EndDocument, BeginDocument, DocumentClass, TextbfOpen, ResumeEntryS,
                   OpenBrace, BeginItemize, EndItemize, BeginTabularStar}
              \cup SubtitleDefs THEN 1
    ELSE 0

CloseBraces(t) ==
    IF t \in Headers \cup {HrefOk} THEN 2
    ELSE IF t \in {EndDocument, BeginDocument, DocumentClass, CloseBrace,
                   BeginItemize, EndItemize, BeginTabularStar}
              \cup SubtitleDefs THEN 1
    ELSE 0

RECURSIVE Sum(_)
Sum(counts) == IF counts = <<>> THEN 0 ELSE Head(counts) + Sum(Tail(counts))

Contains(text, t) == \E i \in 1..Len(text) : text[i] = t

\* The validation_errors list of merge_sections.
ValidationErrors(text) ==
    (IF Sum([i \in 1..Len(text) |-> OpenBraces(text[i])])
           # Sum([i \in 1..Len(text) |-> CloseBraces(text[i])])
     THEN <<"Unbalanced braces">> ELSE <<>>)
    \o (IF ~Contains(text, BeginDocument) THEN <<"Missing \\begin{document}">> ELSE <<>>)
    \o (IF ~Contains(text, EndDocument) THEN <<"Missing \\end{document}">> ELSE <<>>)

MergedWithErrors == "Merged file saved but has validation errors:"
MergedOk == "Successfully merged"

\* A variant of the end of merge_sections that validates before it writes and
\* returns an error, writing nothing, when the validation fails.
MergeSaveAborting ==
    /\ pc = "merge_loop"
    /\ idx > Len(updated_sections)
    /\ IF ValidationErrors(latex) # <<>>
       THEN /\ merge_result' = <<ErrorWord>> \o ValidationErrors(latex)
            /\ UNCHANGED output_file
       ELSE /\ merge_result' = <<MergedOk>>
            /\ output_file' = latex
    /\ pc' = "merged"
    /\ UNCHANGED <<original_resume, agent_sections, updated_sections, latex, idx,
                   extracted>>
    /\ UNCHANGED <<toolVars, serviceVars, apiVars>>

\* merge_sections after its loop: write output_file, validate, report.
MergeSave ==
    /\ pc = "merge_loop"
    /\ idx > Len(updated_sections)
    /\ output_file' = latex
    /\ merge_result' = IF ValidationErrors(latex) # <<>>
                       THEN <<MergedWithErrors>> \o ValidationErrors(latex)
                       ELSE <<MergedOk>>
    /\ pc' = "merged"
    /\ UNCHANGED <<original_resume, agent_sections, updated_sections, latex, idx,
                   extracted>>
    /\ UNCHANGED <<toolVars, serviceVars, apiVars>>

\* _post_merge_cleanup(output_path): read, clean, write back.
PostMergeCleanup ==
    /\ pc = "merged"
    /\ IF output_file = NoFile
       THEN UNCHANGED <<latex, output_file>>
       ELSE /\ latex' = CleanupText(output_file)
            /\ output_file' = CleanupText(output_file)
    /\ pc' = "cleaned"
    /\ UNCHANGED <<original_resume, agent_sections, updated_sections, idx,
                   merge_result, extracted>>
    /\ UNCHANGED <<toolVars, serviceVars, apiVars>>

Next ==
    \/ CopyOriginal
    \/ ParseSections
    \/ MergeBegin
    \/ MergeReplace
    \/ MergeSave
    \/ PostMergeCleanup

Spec == Init /\ [][Next]_vars

-----------------------------------------------------------------------------
(* The locator on its own: extract_section, then replace_section with the
   extracted text. *)

LocatorLexemes == {Header(PS), Header(TP), HeaderLower, "Go", NL, EndDocument}

InitLocator ==
    /\ original_resume \in SeqsUpTo(LocatorLexemes, MaxLocLen)
    /\ latex = original_resume
    /\ agent_sections = <<>>
    /\ updated_sections = <<>>
    /\ output_file = NoFile
    /\ idx = 0
    /\ merge_result = <<>>
    /\ extracted = <<>>
    /\ pc = "locate"
    /\ InitTools /\ InitService /\ InitApi

\* extracted[section_name] = extract_section(resume_text, section_name)
ExtractSection ==
    /\ pc = "locate"
    /\ \E section_name \in {PS, TP} :
           extracted' = <<[name |-> section_name,
                           content |-> extract_section(latex, section_name)]>>
    /\ pc' = "extracted"
    /\ UNCHANGED <<original_resume, agent_sections, updated_sections, output_file,
                   latex, idx, merge_result>>
    /\ UNCHANGED <<toolVars, serviceVars, apiVars>>

\* latex = replace_section(latex, section_name, <the extracted text>)
ReplaceSection ==
    /\ pc = "extracted"
    /\ latex' = replace_section(latex, extracted[1].name, extracted[1].content)
    /\ pc' = "replaced"
    /\ UNCHANGED <<original_resume, agent_sections, updated_sections, output_file,
                   idx, merge_result, extracted>>
    /\ UNCHANGED <<toolVars, serviceVars, apiVars>>

NextLocator == ExtractSection \/ ReplaceSection

SpecLocator == InitLocator /\ [][NextLocator]_vars

-----------------------------------------------------------------------------
(* The sanitizer on its own: _post_merge_cleanup on a merged file, run once
   and once more on its own output, and its two steps applied to the file's text. *)

SanitizerLexemes == {Header(TP), Header(PE), Header(ED), "Go", NL, EndDocument}
StrayLexemes == {Header(TP), ResumeEntryEnd, "TECHNICAL PROFICIENCIES:", SP, "Go"}

InitSanitizer ==
    /\ output_file \in SeqsUpTo(SanitizerLexemes, MaxSanLen)
                       \cup SeqsUpTo(StrayLexemes, MaxStrayLen)
    /\ original_resume = output_file
    /\ agent_sections = <<>>
    /\ updated_sections = <<>>
    /\ latex = <<>>
    /\ idx = 0
    /\ merge_result = <<>>
    /\ extracted = <<>>
    /\ pc = "merged"
    /\ InitTools /\ InitService /\ InitApi

\* latex = _remove_duplicate_sections(latex, "Technical Proficiencies")
RemoveDuplicateSections ==
    /\ pc = "merged"
    /\ latex' = _remove_duplicate_sections(output_file, TP)
    /\ pc' = "deduplicated"
    /\ UNCHANGED <<original_resume, agent_sections, updated_sections, output_file,
                   idx, merge_result, extracted>>
    /\ UNCHANGED <<toolVars, serviceVars, apiVars>>

\* latex = _reposition_section_after(latex, "Technical Proficiencies", "Professional Experience")
RepositionSectionAfter ==
    /\ pc = "merged"
    /\ latex' = _reposition_section_after(output_file, TP, PE)
    /\ pc' = "repositioned"
    /\ UNCHANGED <<original_resume, agent_sections, updated_sections, output_file,
                   idx, merge_result, extracted>>
    /\ UNCHANGED <<toolVars, serviceVars, apiVars>>

\* _post_merge_cleanup(output_path) called on the file it has already cleaned.
PostMergeCleanupAgain ==
    /\ pc = "cleaned"
    /\ output_file # NoFile
    /\ latex' = CleanupText(output_file)
    /\ output_file' = CleanupText(output_file)
    /\ pc' = "cleaned_again"
    /\ UNCHANGED <<original_resume, agent_sections, updated_sections, idx,
                   merge_result, extracted>>
    /\ UNCHANGED <<toolVars, serviceVars, apiVars>>

NextSanitizer ==
    \/ RemoveDuplicateSections
    \/ RepositionSectionAfter
    \/ PostMergeCleanup
    \/ PostMergeCleanupAgain

SpecSanitizer == InitSanitizer /\ [][NextSanitizer]_vars

-----------------------------------------------------------------------------
(* The normalizer on its own: _post_process_sections on a one-entry map. *)

SkillsLexemes == {TextbfOpen, CloseBrace, "Go", SP}
SummaryLexemes == {"5", "+", "years", "of", SP}
\* Prose with blank space, a header and labels echoed by the generator.
EchoLexemes == {"SUBTITLE:", "OPTIONAL EXPERIENCE:", Header(PS), "Go", SP, NL}

InitNormalizer ==
    /\ agent_sections \in
           {<<[name |-> TP, content |-> t]>> : t \in SeqsUpTo(SkillsLexemes, MaxTextLen)}
           \cup {<<[name |-> PS, content |-> t]>> : t \in SeqsUpTo(SummaryLexemes, MaxTextLen)}
           \cup {<<[name |-> n, content |-> t]>> :
                     n \in {PS, TP, PE}, t \in SeqsUpTo(EchoLexemes, MaxEchoLen)}
    /\ original_resume = <<>>
    /\ updated_sections = <<>>
    /\ output_file = NoFile
    /\ latex = <<>>
    /\ idx = 0
    /\ merge_result = <<>>
    /\ extracted = <<>>
    /\ pc = "copied"
    /\ InitTools /\ InitService /\ InitApi

NextNormalizer == ParseSections

SpecNormalizer == InitNormalizer /\ [][NextNormalizer]_vars

-----------------------------------------------------------------------------
(* tools/resume_tools.py: validate_latex *)

\* Number of elements of text that are in T (str.count, len(re.findall(...))).
Count(text, T) == Cardinality({i \in 1..Len(text) : text[i] \in T})

AbsDiff(a, b) == IF a >= b THEN a - b ELSE b - a

\* Environment names of the model that begin_pattern and end_pattern capture
\* (\w+ does not match the name of a starred environment), and their
\* \begin{...} / \end{...} lexemes.
Environments == {"document", "itemize"}
BeginOf(env) == IF env = "document" THEN BeginDocument ELSE BeginItemize
EndOf(env) == IF env = "document" THEN EndDocument ELSE EndItemize

\* A variant of validate_latex's brace check that reports only extra '{'.
BraceErrorsOpenOnly(latex_content) ==
    LET open_braces == Sum([i \in 1..Len(latex_content) |-> OpenBraces(latex_content[i])])
        close_braces == Sum([i \in 1..Len(latex_content) |-> CloseBraces(latex_content[i])])
    IN  IF open_braces > close_braces
        THEN {<<"Unbalanced curly braces", open_braces - close_braces, "extra {">>}
        ELSE {}

\* brace_count = count('{') - count('}'); the error names abs(brace_count).
BraceErrors(latex_content) ==
    LET open_braces == Sum([i \in 1..Len(latex_content) |-> OpenBraces(latex_content[i])])
        close_braces == Sum([i \in 1..Len(latex_content) |-> CloseBraces(latex_content[i])])
    IN  IF open_braces # close_braces
        THEN {<<"Unbalanced curly braces", AbsDiff(open_braces, close_braces),
                IF open_braces > close_braces THEN "extra {" ELSE "extra }">>}
        ELSE {}

BracketErrors(latex_content) ==
    LET open_brackets == Count(latex_content, {OpenBracket})
        close_brackets == Count(latex_content, {CloseBracket})
    IN  IF open_brackets # close_brackets
        THEN {<<"Unbalanced square brackets", AbsDiff(open_brackets, close_brackets),
                IF open_brackets > close_brackets THEN "extra [" ELSE "extra ]">>}
        ELSE {}

MarkerErrors(latex_content) ==
    (IF ~Contains(latex_content, BeginDocument)
     THEN {<<"Missing \\begin{document}">>} ELSE {})
    \cup (IF ~Contains(latex_content, EndDocument)
          THEN {<<"Missing \\end{document}">>} ELSE {})

\* for env in set(begins + ends): begin_count != end_count
EnvironmentErrors(latex_content) ==
    {<<"Unbalanced environment", env,
       Count(latex_content, {BeginOf(env)}), Count(latex_content, {EndOf(env)})>> :
        env \in {e \in Environments :
                    Count(latex_content, {BeginOf(e)}) # Count(latex_content, {EndOf(e)})}}

ValidatorWarnings(latex_content) ==
    (IF ~Contains(latex_content, DocumentClass)
     THEN {<<"No \\documentclass found">>} ELSE {})
    \cup (IF Count(latex_content, {HrefOk, HrefBare}) # Count(latex_content, {HrefOk})
          THEN {<<"Possible malformed \\href commands",
                  Count(latex_content, {HrefOk, HrefBare}), Count(latex_content, {HrefOk})>>}
          ELSE {})

\* The errors and warnings lists are modelled as sets: no two entries of a list
\* are equal, so the list is empty exactly when the set is.
validate_latex(latex_content) ==
    LET errors == BraceErrors(latex_content) \cup BracketErrors(latex_content)
                  \cup MarkerErrors(latex_content) \cup EnvironmentErrors(latex_content)
    IN  [is_valid |-> errors = {},
         errors |-> errors,
         warnings |-> ValidatorWarnings(latex_content)]

MaxValLen == 4     \* lexemes of a document handed to the validator

ValidatorLexemes ==
    {OpenBrace, CloseBrace, OpenBracket, CloseBracket, BeginDocument, EndDocument,
     BeginItemize, EndItemize, BeginTabularStar, DocumentClass, HrefOk, HrefBare}

InitValidator ==
    /\ latex \in SeqsUpTo(ValidatorLexemes, MaxValLen)
    /\ original_resume = latex
    /\ agent_sections = <<>>
    /\ updated_sections = <<>>
    /\ output_file = NoFile
    /\ idx = 0
    /\ merge_result = <<>>
    /\ extracted = <<>>
    /\ pc = "validate"
    /\ InitTools /\ InitService /\ InitApi

\* result = validate_latex(latex_content)
ValidateLatex ==
    /\ pc = "validate"
    /\ validation' = validate_latex(latex)
    /\ pc' = "validated"
    /\ UNCHANGED <<original_resume, agent_sections, updated_sections, output_file,
                   latex, idx, merge_result, extracted, preflight_error, serviceVars, apiVars>>

NextValidator == ValidateLatex

SpecValidator == InitValidator /\ [][NextValidator]_vars

-----------------------------------------------------------------------------
(* tools/resume_helpers.py: preflight_resume *)

DocumentClassUpper == "\\documentclass{Article}"
DocumentClassOther == "\\documentclass[11pt]{moderncv}"
UsePackage == "\\usepackage{geometry}"
UsePackageList == "\\usepackage[dvipsnames]{xcolor, geometry}"
RequirePackage == "\\RequirePackage{hyperref}"
InputFile == "\\input{skills}"

\* match.group(1).split(","), each name stripped, for the match inside a lexeme.
PackagesOf(t) ==
    CASE t = UsePackage -> <<"geometry">>
      [] t = UsePackageList -> <<"xcolor", "geometry">>
      [] t = RequirePackage -> <<"hyperref">>
      [] OTHER -> <<>>

\* seen.setdefault(pkg, True) for each; list(seen.keys()): first occurrences, in order.
RECURSIVE Dedup(_)
Dedup(names) ==
    IF names = <<>> THEN <<>>
    ELSE LET rest == Dedup(SubSeq(names, 1, Len(names) - 1))
             last == names[Len(names)]
         IN  IF \E i \in 1..Len(rest) : rest[i] = last THEN rest ELSE Append(rest, last)

\* A variant of _extract_packages that looks for \usepackage only.
_extract_packages_usepackage_only(tex_content) ==
    Dedup(Flatten([i \in 1..Len(tex_content) |->
                      IF tex_content[i] = RequirePackage THEN <<>>
                      ELSE PackagesOf(tex_content[i])]))

_extract_packages(tex_content) ==
    Dedup(Flatten([i \in 1..Len(tex_content) |-> PackagesOf(tex_content[i])]))

\* f"Packages detected: {', '.join(packages) if packages else 'none'}."
PackageMsg(packages) ==
    <<"Packages detected: ", IF packages = <<>> THEN <<"none">> ELSE packages, ".">>

ClassLexemes == {DocumentClass, DocumentClassUpper, DocumentClassOther}

\* docclass_match.group(1).strip()
ClassOf(t) ==
    CASE t = DocumentClass -> "article"
      [] t = DocumentClassUpper -> "Article"
      [] t = DocumentClassOther -> "moderncv"

\* str.lower() on the class names of the model
Lower(name) == IF name = "Article" THEN "article" ELSE name

\* A variant of the section test of preflight_resume that rejects when any
\* expected section is missing.
MissingSectionsAny(tex_content) ==
    \E sec \in {PS, TP} : ~Contains(tex_content, Header(sec))

\* len(missing_sections) == len(expected_sections)
MissingSectionsAll(tex_content) ==
    \A sec \in {PS, TP} : ~Contains(tex_content, Header(sec))

\* None
None == <<>>

\* preflight_resume(tex_content, resume_path); `exists` tells whether the file
\* an \input names exists next to the resume.
preflight_resume(tex_content, exists) ==
    LET package_msg == PackageMsg(_extract_packages(tex_content))
        docclass_match == Find(tex_content, ClassLexemes, 1)
        docclass == ClassOf(tex_content[docclass_match])
        include_matches == Count(tex_content, {InputFile})
    IN  IF docclass_match = 0
        THEN <<"Unsupported resume: missing \\documentclass declaration. ">> \o package_msg
        ELSE IF Lower(docclass) # "article"
        THEN <<"Unsupported LaTeX template '", docclass, "'. ",
               "This workflow currently supports single-file 'article' resumes only (no external class files). ">>
             \o package_msg
        ELSE IF include_matches > 0
        THEN IF ~exists
             THEN <<"Unsupported resume: references external files (", "skills",
                    ") and some are missing [", "skills", "]. ",
                    "Only single-file resumes are supported here. ">> \o package_msg
             ELSE <<"Unsupported resume: references external files (", "skills", "). ",
                    "Only single-file resumes are supported here. ">> \o package_msg
        ELSE IF MissingSectionsAll(tex_content)
        THEN <<"Unsupported resume: could not find expected sections ",
               "(Professional Summary, Technical Proficiencies). ",
               "Please use the bundled article template or align section headers with that format. ">>
             \o package_msg
        ELSE None

MaxPreLen == 4     \* lexemes of a document handed to preflight_resume

PreflightLexemes ==
    {DocumentClass, DocumentClassUpper, DocumentClassOther, UsePackage, UsePackageList,
     RequirePackage, InputFile, Header(PS), Header(TP), Header(PE)}

InitPreflight ==
    /\ original_resume \in SeqsUpTo(PreflightLexemes, MaxPreLen)
    /\ latex = <<>>
    /\ agent_sections = <<>>
    /\ updated_sections = <<>>
    /\ output_file = NoFile
    /\ idx = 0
    /\ merge_result = <<>>
    /\ extracted = <<>>
    /\ pc = "preflight"
    /\ InitTools /\ InitService /\ InitApi

\* preflight_error = preflight_resume(resume_text, resume_path)
PreflightResume ==
    /\ pc = "preflight"
    /\ \E exists \in BOOLEAN :
           preflight_error' = preflight_resume(original_resume, exists)
    /\ pc' = "preflighted"
    /\ UNCHANGED <<original_resume, agent_sections, updated_sections, output_file,
                   latex, idx, merge_result, extracted, validation, serviceVars, apiVars>>

NextPreflight == PreflightResume

SpecPreflight == InitPreflight /\ [][NextPreflight]_vars

-----------------------------------------------------------------------------
(* tools/resume_helpers.py: _sanitize_user_metadata, generate_filename *)

Underscore == "_"
Ampersand == "&"

\* re.sub(<one or more of T>, r, text): every maximal run of elements of T
\* becomes the single element r.
RECURSIVE SubRuns(_, _, _, _)
SubRuns(text, T, r, i) ==
    IF i > Len(text) THEN <<>>
    ELSE IF text[i] \in T THEN <<r>> \o SubRuns(text, T, r, RunEnd(text, T, i) + 1)
    ELSE <<text[i]>> \o SubRuns(text, T, r, i + 1)

\* _sanitize_user_metadata(value), for values of at most 100 characters without
\* control characters: None when blank, else stripped with single spaces.
_sanitize_user_metadata(value) ==
    IF value = None \/ Strip(value) = <<>> THEN None
    ELSE SubRuns(Strip(value), Ws, SP, 1)

\* str.strip('_')
StripUnderscores(s) ==
    LET I == {i \in 1..Len(s) : s[i] # Underscore}
    IN  IF I = {} THEN <<>> ELSE Slice(s, Min(I), Max(I))

\* sanitize(text) of generate_filename, for names of at most 50 characters:
\* drop what is not a word character, whitespace or '-', turn whitespace
\* runs into '_', collapse '_' runs, strip '_'.
sanitize(text) ==
    LET kept == SelectSeq(text, LAMBDA t : t # Ampersand)
        underscored == SubRuns(kept, Ws, Underscore, 1)
        collapsed == SubRuns(underscored, {Underscore}, Underscore, 1)
    IN  StripUnderscores(collapsed)

DEFAULT_OUTPUT_DIR == "data/tailored_versions/"

\* generate_filename(company, position, extension=".tex"): with_timestamp is
\* False, so the name holds the two sanitized names only.
generate_filename(company, position) ==
    <<DEFAULT_OUTPUT_DIR>> \o sanitize(company) \o <<Underscore>> \o sanitize(position)
        \o <<".tex">>

-----------------------------------------------------------------------------
(* backend: routes.tailor_resume, ResumeService.create_job / process_job /
   _run_tailor_resume, and tailor_resume_sections, one thread of the
   background pool per job.

   Step 7 of tailor_resume_sections calls merge_sections with the keyword
   user_subtitle, which merge_sections does not declare: the call raises
   TypeError before the body of merge_sections runs, so the statements after
   it (_post_merge_cleanup, compile_pdf, the return, marking the job
   completed) are never reached and have no action here. *)

PENDING == "pending"
PROCESSING == "processing"
FAILED == "failed"

JOB_TIMEOUT == 300

MaxJobs == 2       \* tailoring jobs submitted

\* The resumes of data/original.
ResumeIds == {"a", "b", "c"}
OriginalPath(id) == <<"data/original/", id, ".tex">>

ResumeOf(id) ==
    CASE id = "a" -> <<DocumentClass, NL, BeginDocument, NL>> \o SectionText(PS)
                     \o SectionText(TP) \o <<EndDocument, NL>>
      [] id = "b" -> <<DocumentClass, NL, BeginDocument, NL>> \o SectionText(TP)
                     \o SectionText(PS) \o SectionText(ED) \o <<EndDocument, NL>>
      [] id = "c" -> <<DocumentClassOther, NL, UsePackage, NL, BeginDocument, NL>>
                     \o SectionText(PS) \o <<EndDocument, NL>>

ExtractedCompanies == {<<"Initech">>, <<"Acme", SP, "Corp">>}
PositionName == <<"Engineer">>

\* What the section generator returns, as the map parse_sections builds.
AgentOutputs ==
    {<<[name |-> PS, content |-> <<"Go", SP, Header(PS), NL, "Python">>]>>,
     <<[name |-> PS, content |-> <<Header(PS), NL, "Python">>],
       [name |-> PE, content |-> <<Header(PE), NL, "Python">>]>>}

TimeoutError == <<"Timeout after ", ToString(JOB_TIMEOUT), " seconds">>
TimeoutMessage ==
    <<"Job timed out after ", ToString(JOB_TIMEOUT),
      " seconds. The AI agent took too long to respond.">>
TypeError == <<"merge_sections() got an unexpected keyword argument 'user_subtitle'">>
\* An exception the agent call ends with (exception[0] of _call_agent_with_timeout).
AgentException == <<"agent exception">>

InitPipeline ==
    /\ jobs = <<>>
    /\ threads = <<>>
    /\ files = [path \in {OriginalPath(id) : id \in ResumeIds} |->
                   ResumeOf(CHOOSE id \in ResumeIds : OriginalPath(id) = path)]
    /\ original_resume = <<>>
    /\ agent_sections = <<>>
    /\ updated_sections = <<>>
    /\ output_file = NoFile
    /\ latex = <<>>
    /\ idx = 0
    /\ merge_result = <<>>
    /\ extracted = <<>>
    /\ pc = "serve"
    /\ InitTools /\ InitApi

\* The requests submitted: a resume id and the company name the request
\* carries (None: taken from the job posting); "zz" names no resume.
Requests ==
    {[original_resume_id |-> "a", company_name |-> <<"Acme", SP, "Corp">>],
     [original_resume_id |-> "b", company_name |-> <<"Acme", SP, Ampersand, SP, "Corp">>],
     [original_resume_id |-> "a", company_name |-> None],
     [original_resume_id |-> "c", company_name |-> None],
     [original_resume_id |-> "zz", company_name |-> None]}

\* POST /tailor: 404 when the resume does not exist, else create_job and
\* background_tasks.add_task(process_job, job_id).
TailorResume ==
    /\ Len(jobs) < MaxJobs
    /\ \E request \in Requests :
           IF OriginalPath(request.original_resume_id) \notin DOMAIN files
           THEN UNCHANGED <<jobs, threads>>
           ELSE /\ jobs' = Append(jobs,
                               [status |-> PENDING, progress |-> 0,
                                message |-> <<"Job created">>, completed_at |-> None,
                                original_resume_id |-> request.original_resume_id,
                                company_name |-> request.company_name,
                                desired_title |-> PositionName,
                                result |-> None, error |-> None])
                /\ threads' = Append(threads,
                                  [pc |-> "queued", output_path |-> None,
                                   extracted |-> <<>>, updated_sections |-> <<>>,
                                   exc |-> None])
    /\ UNCHANGED <<engineVars, toolVars, apiVars, files>>

\* What an except clause of process_job has stored when it ends.
Failed(job, message, error) ==
    [job EXCEPT !.status = FAILED, !.progress = 0, !.message = message,
                !.error = error, !.completed_at = <<"now">>]

FailedWith(job, e) == Failed(job, <<"Error: ">> \o e, e)

\* An exception e leaves the try block of process_job for its except clauses.
Raise(thread, e) == [thread EXCEPT !.pc = "except", !.exc = e]

\* process_job runs on a thread of the pool and the routes read the job's
\* dict from the event loop: every store to the dict is a step of its own.

\* job["status"] = JobStatus.PROCESSING
StartJob(j) ==
    /\ threads[j].pc = "queued"
    /\ jobs' = [jobs EXCEPT ![j].status = PROCESSING]
    /\ threads' = [threads EXCEPT ![j].pc = "start_progress"]
    /\ UNCHANGED <<engineVars, toolVars, apiVars, files>>

\* job["progress"] = progress, at the position at of the thread.
StoreProgress(j, at, progress, next) ==
    /\ threads[j].pc = at
    /\ jobs' = [jobs EXCEPT ![j].progress = progress]
    /\ threads' = [threads EXCEPT ![j].pc = next]
    /\ UNCHANGED <<engineVars, toolVars, apiVars, files>>

\* job["message"] = message, at the position at of the thread.
StoreMessage(j, at, message, next) ==
    /\ threads[j].pc = at
    /\ jobs' = [jobs EXCEPT ![j].message = message]
    /\ threads' = [threads EXCEPT ![j].pc = next]
    /\ UNCHANGED <<engineVars, toolVars, apiVars, files>>

\* The progress reports of process_job and _run_tailor_resume: 10, 20, 30.
ReportProgress(j) ==
    \/ StoreProgress(j, "start_progress", 10, "start_message")
    \/ StoreProgress(j, "prepare_progress", 20, "prepare_message")
    \/ StoreProgress(j, "run_progress", 30, "run_message")

ReportMessage(j) ==
    \/ StoreMessage(j, "start_message", <<"Starting resume tailoring...">>, "prepare")
    \/ StoreMessage(j, "prepare_message", <<"Extracting job metadata...">>, "run_progress")
    \/ StoreMessage(j, "run_message", <<"Generating tailored sections...">>, "run")

\* process_job: the original must exist.
PreparePaths(j) ==
    /\ threads[j].pc = "prepare"
    /\ threads' = [threads EXCEPT ![j] =
                       IF OriginalPath(jobs[j].original_resume_id) \notin DOMAIN files
                       THEN Raise(@, <<"Original resume not found: ">>
                                     \o OriginalPath(jobs[j].original_resume_id))
                       ELSE [@ EXCEPT !.pc = "prepare_progress"]]
    /\ UNCHANGED <<engineVars, toolVars, apiVars, jobs, files>>

\* Steps 1 and 2 of tailor_resume_sections, for the company name and title of
\* a request and the company the metadata agent extracts: the metadata from
\* the request or from the posting, then the output path.
OutputPathOf ==
    [company_name \in {request.company_name : request \in Requests},
     desired_title \in {PositionName},
     extracted_company \in ExtractedCompanies |->
        LET user_company == _sanitize_user_metadata(company_name)
            user_title == _sanitize_user_metadata(desired_title)
            company == IF user_company # None THEN user_company ELSE extracted_company
        IN  generate_filename(company, user_title)]

\* _run_tailor_resume calls tailor_resume_sections: its steps 1 and 2.
RunTailorResume(j) ==
    /\ threads[j].pc = "run"
    /\ \E extracted_company \in ExtractedCompanies :
           threads' = [threads EXCEPT ![j].pc = "read",
                                      ![j].output_path =
                                          OutputPathOf[jobs[j].company_name,
                                                       jobs[j].desired_title,
                                                       extracted_company]]
    /\ UNCHANGED <<engineVars, toolVars, apiVars, jobs, files>>

\* sections_to_extract, include_experience being False.
SectionsToExtract == <<PS, TP>>

\* The loop over sections_to_extract: the sections extract_section finds.
ExtractedFrom(resume_text) ==
    LET found(name) == LET section_content == extract_section(resume_text, name)
                       IN  section_content # <<>>
                           /\ section_content[1] # SectionNotFound(name)[1]
    IN  SelectSeq([i \in 1..Len(SectionsToExtract) |->
                      [name |-> SectionsToExtract[i],
                       content |-> extract_section(resume_text, SectionsToExtract[i])]],
                  LAMBDA e : found(e.name))

\* A variant of ReadResume that extracts and copies to the output path before
\* it looks at what preflight_resume returned.
ReadResumeAfterCopy(j) ==
    /\ threads[j].pc = "read"
    /\ LET resume_text == files[OriginalPath(jobs[j].original_resume_id)]
           error == preflight_resume(resume_text, TRUE)
       IN  /\ files' = [path \in DOMAIN files \cup {threads[j].output_path} |->
                           IF path = threads[j].output_path THEN resume_text
                           ELSE files[path]]
           /\ IF error # None
              THEN threads' = [threads EXCEPT ![j] =
                                  Raise([@ EXCEPT !.extracted = ExtractedFrom(resume_text)],
                                        error)]
              ELSE threads' = [threads EXCEPT ![j].pc = "copy",
                                      ![j].extracted = ExtractedFrom(resume_text)]
    /\ UNCHANGED <<engineVars, toolVars, apiVars, jobs>>

\* preflight_resume and the extraction loop on each resume of data/original.
PreflightOf ==
    [resume_text \in {ResumeOf(id) : id \in ResumeIds} |->
        preflight_resume(resume_text, TRUE)]

ExtractedOf ==
    [resume_text \in {ResumeOf(id) : id \in ResumeIds} |-> ExtractedFrom(resume_text)]

\* tailor_resume_sections: read the resume, preflight_resume, raise ValueError
\* on a rejection; extract the sections for the prompt.
ReadResume(j) ==
    /\ threads[j].pc = "read"
    /\ LET resume_text == files[OriginalPath(jobs[j].original_resume_id)]
           error == PreflightOf[resume_text]
       IN  IF error # None
           THEN threads' = [threads EXCEPT ![j] = Raise(@, error)]
           ELSE threads' = [threads EXCEPT ![j].pc = "copy",
                                   ![j].extracted = ExtractedOf[resume_text]]
    /\ UNCHANGED <<engineVars, toolVars, apiVars, jobs, files>>

\* shutil.copy2(original_resume_path, output_path)
CopyToOutput(j) ==
    /\ threads[j].pc = "copy"
    /\ files' = [path \in DOMAIN files \cup {threads[j].output_path} |->
                    IF path = threads[j].output_path
                    THEN files[OriginalPath(jobs[j].original_resume_id)]
                    ELSE files[path]]
    /\ threads' = [threads EXCEPT ![j].pc = "agent"]
    /\ UNCHANGED <<engineVars, toolVars, apiVars, jobs>>

\* A variant of CallAgent whose call never returns and is never cut off.
CallAgentHanging(j) ==
    /\ threads[j].pc = "agent"
    /\ UNCHANGED vars

\* _call_agent_with_timeout: the call is cut off by the timeout, it raises,
\* or it returns and parse_sections and _post_process_sections follow.
CallAgent(j) ==
    /\ threads[j].pc = "agent"
    /\ \/ threads' = [threads EXCEPT ![j] = Raise(@, TimeoutError)]
       \/ threads' = [threads EXCEPT ![j] = Raise(@, AgentException)]
       \/ \E result \in AgentOutputs :
              threads' = [threads EXCEPT ![j].pc = "merge",
                                 ![j].updated_sections = _post_process_sections(result)]
    /\ UNCHANGED <<engineVars, toolVars, apiVars, jobs, files>>

\* merge_sections(original_file=..., updated_sections=..., output_file=...,
\* user_subtitle=user_title): TypeError, caught by process_job.
CallMergeSections(j) ==
    /\ threads[j].pc = "merge"
    /\ threads' = [threads EXCEPT ![j] = Raise(@, TypeError)]
    /\ UNCHANGED <<engineVars, toolVars, apiVars, jobs, files>>

\* The except clauses of process_job, one store to the job's dict per step:
\* the thread of the pool that runs process_job shares the dict with the
\* routes that read it.
ExceptStatus(j) ==
    /\ threads[j].pc = "except"
    /\ jobs' = [jobs EXCEPT ![j].status = FAILED]
    /\ threads' = [threads EXCEPT ![j].pc = "except_progress"]
    /\ UNCHANGED <<engineVars, toolVars, apiVars, files>>

ExceptProgress(j) ==
    /\ threads[j].pc = "except_progress"
    /\ jobs' = [jobs EXCEPT ![j].progress = 0]
    /\ threads' = [threads EXCEPT ![j].pc = "except_message"]
    /\ UNCHANGED <<engineVars, toolVars, apiVars, files>>

ExceptMessage(j) ==
    /\ threads[j].pc = "except_message"
    /\ jobs' = [jobs EXCEPT ![j].message =
                   IF threads[j].exc = TimeoutError THEN TimeoutMessage
                   ELSE <<"Error: ">> \o threads[j].exc]
    /\ threads' = [threads EXCEPT ![j].pc = "except_error"]
    /\ UNCHANGED <<engineVars, toolVars, apiVars, files>>

ExceptError(j) ==
    /\ threads[j].pc = "except_error"
    /\ jobs' = [jobs EXCEPT ![j].error = threads[j].exc]
    /\ threads' = [threads EXCEPT ![j].pc = "except_completed_at"]
    /\ UNCHANGED <<engineVars, toolVars, apiVars, files>>

ExceptCompletedAt(j) ==
    /\ threads[j].pc = "except_completed_at"
    /\ jobs' = [jobs EXCEPT ![j].completed_at = <<"now">>]
    /\ threads' = [threads EXCEPT ![j].pc = "done"]
    /\ UNCHANGED <<engineVars, toolVars, apiVars, files>>

\* The steps of the thread that runs process_job for job j.
ProcessJob(j) ==
    \/ StartJob(j)
    \/ ReportProgress(j)
    \/ ReportMessage(j)
    \/ PreparePaths(j)
    \/ RunTailorResume(j)
    \/ ReadResume(j)
    \/ CopyToOutput(j)
    \/ CallAgent(j)
    \/ CallMergeSections(j)
    \/ ExceptStatus(j)
    \/ ExceptProgress(j)
    \/ ExceptMessage(j)
    \/ ExceptError(j)
    \/ ExceptCompletedAt(j)

NextPipeline ==
    \/ TailorResume
    \/ \E j \in 1..Len(jobs) : StartJob(j)
    \/ \E j \in 1..Len(jobs) : ReportProgress(j)
    \/ \E j \in 1..Len(jobs) : ReportMessage(j)
    \/ \E j \in 1..Len(jobs) : PreparePaths(j)
    \/ \E j \in 1..Len(jobs) : RunTailorResume(j)
    \/ \E j \in 1..Len(jobs) : ReadResume(j)
    \/ \E j \in 1..Len(jobs) : CopyToOutput(j)
    \/ \E j \in 1..Len(jobs) : CallAgent(j)
    \/ \E j \in 1..Len(jobs) : CallMergeSections(j)
    \/ \E j \in 1..Len(jobs) : ExceptStatus(j)
    \/ \E j \in 1..Len(jobs) : ExceptProgress(j)
    \/ \E j \in 1..Len(jobs) : ExceptMessage(j)
    \/ \E j \in 1..Len(jobs) : ExceptError(j)
    \/ \E j \in 1..Len(jobs) : ExceptCompletedAt(j)

SpecPipeline == InitPipeline /\ [][NextPipeline]_vars

MaxLiveJobs == 1   \* tailoring jobs submitted in SpecJob

\* The pipeline with at most MaxLiveJobs jobs.
NextJob ==
    \/ Len(jobs) < MaxLiveJobs /\ TailorResume
    \/ \E j \in 1..Len(jobs) : ProcessJob(j)

SpecJob == InitPipeline /\ [][NextJob]_vars

\* Every job runs on a thread of its own of the pool, which the scheduler
\* keeps running; the agent call is left after at most its timeout.
SpecJobLive ==
    SpecJob /\ \A j \in 1..MaxLiveJobs : WF_vars(j \in 1..Len(jobs) /\ ProcessJob(j))

-----------------------------------------------------------------------------
(* tools/section_updater.py: merge_sections on maps in either key order *)

\* The loop of merge_sections from entry i on: the text after the last
\* replacement, or the error of the first replacement that fails.
RECURSIVE ReplaceFrom(_, _, _)
ReplaceFrom(text, sections, i) ==
    IF i > Len(sections) THEN text
    ELSE IF sections[i].name = SUBTITLE THEN ReplaceFrom(text, sections, i + 1)
    ELSE LET replaced == replace_section(text, sections[i].name, sections[i].content)
         IN  IF StartsWithError(replaced) THEN replaced
             ELSE ReplaceFrom(replaced, sections, i + 1)

\* Maps of two section names as parse_sections normalizes them, in the order
\* of the dict and in the opposite order.
TwoKeyMaps ==
    LET pairs == {_post_process_sections(m) :
                     m \in {m \in RawMaps : Len(m) = 2 /\ SUBTITLE \notin Keys(m)}}
    IN  pairs \cup {<<m[2], m[1]>> : m \in pairs}

InitMergeOrder ==
    /\ original_resume \in Resumes
    /\ agent_sections = <<>>
    /\ updated_sections \in TwoKeyMaps
    /\ output_file = original_resume
    /\ latex = <<>>
    /\ idx = 0
    /\ merge_result = <<>>
    /\ extracted = <<>>
    /\ pc = "parsed"
    /\ InitTools /\ InitService /\ InitApi

NextMergeOrder == MergeBegin \/ MergeReplace \/ MergeSave

SpecMergeOrder == InitMergeOrder /\ [][NextMergeOrder]_vars

-----------------------------------------------------------------------------
(* backend: routes.generate_cover_letter and get_cover_letter_status,
   CoverLetterService.create_job / process_job / _run_cover_letter.

   process_job is a coroutine of the event loop, like the routes: what it
   runs between two awaits is one step.  _run_cover_letter runs on a thread
   of the default executor. *)

COMPLETED == "completed"

AGENT_CALL_TIMEOUT == 120

MaxLetters == 1    \* cover-letter jobs submitted

DEFAULT_COVER_LETTER_DIR == "data/cover_letters/"

\* OUTPUT_DIR / f"{tailored_result_id}.tex"
TailoredPath(id) == <<DEFAULT_OUTPUT_DIR>> \o id \o <<".tex">>

\* The tailored result the output directory holds when the letters are asked
\* for: the copy a tailoring job left at its output path.
TailoredResultId == <<"Acme", Underscore, "Corp", Underscore, "Engineer">>

LetterRequests ==
    {[original_resume_id |-> "a", tailored_result_id |-> None],
     [original_resume_id |-> "b", tailored_result_id |-> TailoredResultId],
     [original_resume_id |-> "a", tailored_result_id |-> <<"Initech", Underscore, "Engineer">>],
     [original_resume_id |-> "zz", tailored_result_id |-> None]}

\* What the letter agent's answer parses to.
LetterOutputs == {[plain_text |-> <<"Dear", SP, "team">>, latex_body |-> <<"Dear", SP, "team">>]}

\* What generate_cover_letter raises: the timeout of _call_agent_with_timeout,
\* an exception of the agent, json.loads on an answer that is no JSON.
LetterExceptions ==
    {<<"Agent call exceeded timeout of ", ToString(AGENT_CALL_TIMEOUT), " seconds">>,
     <<"agent exception">>,
     <<"Expecting value: line 1 column 1 (char 0)">>}

\* datetime.now().strftime("%Y%m%d_%H%M%S") of generate_filename.
Timestamps == {"20250101_120000", "20250101_120001"}

InitCoverLetter ==
    /\ jobs = <<>>
    /\ threads = <<>>
    /\ files = [path \in {OriginalPath(id) : id \in ResumeIds}
                             \cup {TailoredPath(TailoredResultId)} |->
                   IF path = TailoredPath(TailoredResultId) THEN ResumeOf("a")
                   ELSE ResumeOf(CHOOSE id \in ResumeIds : OriginalPath(id) = path)]
    /\ original_resume = <<>>
    /\ agent_sections = <<>>
    /\ updated_sections = <<>>
    /\ output_file = NoFile
    /\ latex = <<>>
    /\ idx = 0
    /\ merge_result = <<>>
    /\ extracted = <<>>
    /\ pc = "serve"
    /\ InitTools /\ InitApi

\* POST /cover-letter: 404 when the resume or the tailored result does not
\* exist, else create_job and background_tasks.add_task(process_job, job_id).
GenerateCoverLetter ==
    /\ Len(jobs) < MaxLetters
    /\ \E request \in LetterRequests :
           IF \/ OriginalPath(request.original_resume_id) \notin DOMAIN files
              \/ /\ request.tailored_result_id # None
                 /\ TailoredPath(request.tailored_result_id) \notin DOMAIN files
           THEN UNCHANGED <<jobs, threads>>
           ELSE /\ jobs' = Append(jobs,
                               [status |-> PENDING, progress |-> 0,
                                message |-> <<"Job created">>, completed_at |-> None,
                                original_resume_id |-> request.original_resume_id,
                                tailored_result_id |-> request.tailored_result_id,
                                result |-> None, error |-> None])
                /\ threads' = Append(threads,
                                  [pc |-> "queued", exc |-> None, result |-> None])
    /\ UNCHANGED <<engineVars, toolVars, apiVars, files>>

\* process_job up to its await: status PROCESSING, progress 10, the original
\* must exist, then run_in_executor(None, self._run_cover_letter, job).
StartLetterJob(j) ==
    /\ threads[j].pc = "queued"
    /\ IF OriginalPath(jobs[j].original_resume_id) \notin DOMAIN files
       THEN /\ jobs' = [jobs EXCEPT ![j] =
                           FailedWith(@, <<"Original resume not found: ">>
                                         \o OriginalPath(jobs[j].original_resume_id))]
            /\ threads' = [threads EXCEPT ![j].pc = "done"]
       ELSE /\ jobs' = [jobs EXCEPT ![j].status = PROCESSING, ![j].progress = 10,
                                    ![j].message = <<"Starting cover letter generation...">>]
            /\ threads' = [threads EXCEPT ![j].pc = "executor"]
    /\ UNCHANGED <<engineVars, toolVars, apiVars, files>>

\* _run_cover_letter, on the executor's thread: progress 35.
RunCoverLetter(j) ==
    /\ threads[j].pc = "executor"
    /\ jobs' = [jobs EXCEPT ![j].progress = 35,
                            ![j].message = <<"Generating cover letter...">>]
    /\ threads' = [threads EXCEPT ![j].pc = "generate"]
    /\ UNCHANGED <<engineVars, toolVars, apiVars, files>>

\* generate_cover_letter: it raises, or it writes the letter's .tex and .txt
\* under the cover-letter directory and returns their paths.  The letter
\* document is modelled by the body the agent returned.
CallGenerateCoverLetter(j) ==
    /\ threads[j].pc = "generate"
    /\ \/ /\ \E e \in LetterExceptions :
                 threads' = [threads EXCEPT ![j].pc = "resume", ![j].exc = e]
          /\ UNCHANGED files
       \/ \E parsed \in LetterOutputs, company \in ExtractedCompanies,
             timestamp \in Timestamps :
              LET stem == <<DEFAULT_COVER_LETTER_DIR>> \o sanitize(company)
                              \o <<Underscore>> \o sanitize(PositionName)
                              \o <<Underscore, timestamp>>
                  tex_path == stem \o <<".tex">>
                  text_path == stem \o <<".txt">>
              IN  /\ files' = [path \in DOMAIN files \cup {tex_path, text_path} |->
                                  IF path = tex_path THEN parsed.latex_body
                                  ELSE IF path = text_path THEN parsed.plain_text
                                  ELSE files[path]]
                  /\ threads' = [threads EXCEPT ![j].pc = "finalize",
                                     ![j].result = [tex_path |-> tex_path,
                                                    text_path |-> text_path,
                                                    plain_text |-> parsed.plain_text,
                                                    company |-> company,
                                                    position |-> PositionName]]
    /\ UNCHANGED <<engineVars, toolVars, apiVars, jobs>>

\* _run_cover_letter after generate_cover_letter returned: progress 90.
FinalizeLetter(j) ==
    /\ threads[j].pc = "finalize"
    /\ jobs' = [jobs EXCEPT ![j].progress = 90, ![j].message = <<"Finalizing...">>]
    /\ threads' = [threads EXCEPT ![j].pc = "resume"]
    /\ UNCHANGED <<engineVars, toolVars, apiVars, files>>

\* A variant of CompleteLetterJob that stores the status and leaves the other
\* fields of the job for later.
CompleteLetterJobStatusOnly(j) ==
    /\ threads[j].pc = "resume"
    /\ jobs' = [jobs EXCEPT ![j].status =
                   IF threads[j].exc = None THEN COMPLETED ELSE FAILED]
    /\ threads' = [threads EXCEPT ![j].pc = "done"]
    /\ UNCHANGED <<engineVars, toolVars, apiVars, files>>

\* process_job after its await, with no await before its end: the stores of
\* the completion, or those of the except clause.
CompleteLetterJob(j) ==
    /\ threads[j].pc = "resume"
    /\ jobs' = [jobs EXCEPT ![j] =
                   IF threads[j].exc = None
                   THEN [@ EXCEPT !.status = COMPLETED, !.progress = 100,
                                  !.message = <<"Cover letter generated successfully">>,
                                  !.completed_at = <<"now">>,
                                  !.result = threads[j].result]
                   ELSE FailedWith(@, threads[j].exc)]
    /\ threads' = [threads EXCEPT ![j].pc = "done"]
    /\ UNCHANGED <<engineVars, toolVars, apiVars, files>>

\* GET /cover-letter/jobs/{job_id}/status: the fields of the job, and the
\* result when the status read is COMPLETED and the result is set.
GetCoverLetterStatus(j) ==
    /\ response' = [job_id |-> j,
                    status |-> jobs[j].status,
                    progress |-> jobs[j].progress,
                    message |-> jobs[j].message,
                    completed_at |-> jobs[j].completed_at,
                    error |-> jobs[j].error,
                    result |-> IF jobs[j].status = COMPLETED /\ jobs[j].result # None
                               THEN jobs[j].result ELSE None]
    /\ UNCHANGED <<engineVars, toolVars, serviceVars, logs_store, records, emits>>

NextCoverLetter ==
    \/ GenerateCoverLetter
    \/ \E j \in 1..Len(jobs) : StartLetterJob(j)
    \/ \E j \in 1..Len(jobs) : RunCoverLetter(j)
    \/ \E j \in 1..Len(jobs) : CallGenerateCoverLetter(j)
    \/ \E j \in 1..Len(jobs) : FinalizeLetter(j)
    \/ \E j \in 1..Len(jobs) : CompleteLetterJob(j)
    \/ \E j \in 1..Len(jobs) : GetCoverLetterStatus(j)

SpecCoverLetter == InitCoverLetter /\ [][NextCoverLetter]_vars

-----------------------------------------------------------------------------
(* The log capture: LogCaptureHandler of backend/services/log_handler.py. A
   handler is constructed over the store; when the store already has a list for
   the job (filled by emit calls of an earlier handler of the job) it goes on
   with that list. *)

LogCap == 100      \* `if len(self.logs_store[self.job_id]) > 100`
MaxEmits == 3      \* emit calls on the handler

skip_patterns ==
    {"HTTP Request:", "HTTP/1.1 200 OK", "Creating Strands MetricsClient",
     "api.openai.com", "Retrying request", "Connection pool"}

FormatSpec == "%s"

\* Marks a record whose message cannot be formatted.
FormatError == <<"TypeError: not enough arguments for format string">>

\* record.getMessage(): msg % args when there are args; the format raises
\* when the arguments and the specifiers do not match in number.
RECURSIVE Format(_, _)
Format(msg, args) ==
    IF msg = <<>> THEN <<>>
    ELSE IF Head(msg) = FormatSpec
         THEN <<Head(args)>> \o Format(Tail(msg), Tail(args))
         ELSE <<Head(msg)>> \o Format(Tail(msg), args)

getMessage(record) ==
    IF record.args = <<>> THEN record.msg
    ELSE IF Count(record.msg, {FormatSpec}) # Len(record.args) THEN FormatError
    ELSE Format(record.msg, record.args)

\* any(pattern in message for pattern in skip_patterns)
Skipped(message) == \E i \in 1..Len(message) : message[i] \in skip_patterns

\* The records the loggers hand over: plain messages of two levels, a message
\* with a skip pattern, messages formatted from an argument (a skip pattern,
\* another word), a lower-case spelling of a pattern, a message with one
\* specifier too many.
LogRecords ==
    {[levelname |-> "INFO", msg |-> <<"Processing", SP, "job">>, args |-> <<>>],
     [levelname |-> "ERROR", msg |-> <<"Failed">>, args |-> <<>>],
     [levelname |-> "INFO", msg |-> <<"HTTP Request:", SP, "POST">>, args |-> <<>>],
     [levelname |-> "INFO", msg |-> <<"Calling", SP, FormatSpec>>,
      args |-> <<"api.openai.com">>],
     [levelname |-> "INFO", msg |-> <<"Calling", SP, FormatSpec>>, args |-> <<"tool">>],
     [levelname |-> "INFO", msg |-> <<"retrying request">>, args |-> <<>>],
     [levelname |-> "INFO", msg |-> <<"Calling", SP, FormatSpec, FormatSpec>>,
      args |-> <<"tool">>]}

\* The record every earlier emit call of the job was given.
EarlierRecord == [levelname |-> "INFO", msg |-> <<"Starting", SP, "job">>, args |-> <<>>]

\* log_entry; the clock reads the number of the emit call.
LogEntry(record, now) ==
    [timestamp |-> now, level |-> record.levelname, message |-> getMessage(record)]

\* A handler constructed over a store in which earlier emit calls left n
\* entries for the job: none, or so many that the emit calls of this handler
\* can fill the list.
InitLogCapture ==
    /\ \E n \in {0} \cup ((LogCap - MaxEmits)..LogCap) :
           /\ records = [i \in 1..n |-> EarlierRecord]
           /\ logs_store = [i \in 1..n |-> LogEntry(EarlierRecord, i)]
    /\ emits = 0
    /\ response = <<>>
    /\ original_resume = <<>>
    /\ agent_sections = <<>>
    /\ updated_sections = <<>>
    /\ output_file = NoFile
    /\ latex = <<>>
    /\ idx = 0
    /\ merge_result = <<>>
    /\ extracted = <<>>
    /\ pc = "logging"
    /\ InitTools /\ InitService

\* A variant of emit that drops the newest entry when the list is full.
EmitDroppingNewest ==
    /\ emits < MaxEmits
    /\ \E record \in LogRecords :
           LET message == getMessage(record)
               appended == Append(logs_store, LogEntry(record, Len(records) + 1))
           IN  /\ records' = Append(records, record)
               /\ logs_store' = IF message = FormatError \/ Skipped(message)
                                THEN logs_store
                                ELSE IF Len(appended) > LogCap
                                THEN SubSeq(appended, 1, Len(appended) - 1)
                                ELSE appended
    /\ emits' = emits + 1
    /\ UNCHANGED <<engineVars, toolVars, serviceVars, response>>

\* emit(record): format, filter, append, pop(0) above LogCap entries; an
\* exception of the formatting goes to handleError and stores nothing.
Emit ==
    /\ emits < MaxEmits
    /\ \E record \in LogRecords :
           LET message == getMessage(record)
               appended == Append(logs_store, LogEntry(record, Len(records) + 1))
           IN  /\ records' = Append(records, record)
               /\ logs_store' = IF message = FormatError \/ Skipped(message)
                                THEN logs_store
                                ELSE IF Len(appended) > LogCap
                                THEN Tail(appended)
                                ELSE appended
    /\ emits' = emits + 1
    /\ UNCHANGED <<engineVars, toolVars, serviceVars, response>>

NextLogCapture == Emit

SpecLogCapture == InitLogCapture /\ [][NextLogCapture]_vars

-----------------------------------------------------------------------------
(* Properties *)

HeaderCount(text, name) == Cardinality({i \in 1..Len(text) : text[i] = Header(name)})

\* The span of the first section `name` of text: header to span end, as found.
SpanOf(text, name) ==
    Slice(text, SectionStart(text, name),
          SectionEnd(text, SectionStart(text, name)) - 1)

\* C1: after normalize + merge_sections + _post_merge_cleanup with a map that
\* names Professional Summary and Technical Proficiencies only (both present
\* in the resume), every other section of the output equals the same section
\* of the input.
C1_OtherSectionsUntouched ==
    (pc = "cleaned"
        /\ Keys(updated_sections) = {PS, TP}
        /\ HeaderCount(original_resume, PS) = 1
        /\ HeaderCount(original_resume, TP) = 1)
    => \A name \in SectionNames \ {PS, TP} :
           extract_section(output_file, name) = extract_section(original_resume, name)

\* C2 as stated: extracting the span of a section whose header occurs once and
\* replacing it with the extracted text leaves the document unchanged.
C2_RoundTripIdentity ==
    (pc = "replaced" /\ HeaderCount(original_resume, extracted[1].name) = 1)
    => latex = original_resume

\* D with the whitespace that ends the span of `name` replaced by two newlines.
WithSpanEndNormalized(D, name) ==
    LET start == SectionStart(D, name)
        end == SectionEnd(D, start)
    IN  Slice(D, 1, start - 1) \o RStrip(Slice(D, start, end - 1)) \o <<NL, NL>>
        \o Slice(D, end, Len(D))

SpanEndsWithTwoNewlines(D, name) ==
    LET span == SpanOf(D, name)
    IN  span = RStrip(span) \o <<NL, NL>>

\* C2 amended: the round trip returns D with the whitespace that ends the
\* section's span replaced by exactly two newlines, so it returns D exactly
\* when the span already ends with exactly two newlines.
C2_RoundTripUpToSpanEnd ==
    (pc = "replaced" /\ HeaderCount(original_resume, extracted[1].name) = 1)
    => /\ latex = WithSpanEndNormalized(original_resume, extracted[1].name)
       /\ (latex = original_resume
             <=> SpanEndsWithTwoNewlines(original_resume, extracted[1].name))

C2_Witness ==
    /\ pc = "replaced"
    /\ HeaderCount(original_resume, extracted[1].name) = 1
    /\ latex # original_resume
    /\ Len(latex) > Len(original_resume)

\* C3: when the loop of merge_sections reaches a section name with no header
\* in the current document, the merge returns an error that names that section
\* and stops there: nothing is written and no later key is processed.
C3_MissingSectionAborts ==
    [][(pc = "merge_loop"
          /\ idx <= Len(updated_sections)
          /\ updated_sections[idx].name # SUBTITLE
          /\ HeaderCount(latex, updated_sections[idx].name) = 0)
       => (/\ pc' = "merged"
           /\ StartsWithError(merge_result')
           /\ Contains(merge_result', updated_sections[idx].name)
           /\ idx' = idx
           /\ output_file' = output_file)]_vars

C3_Witness ==
    /\ pc = "merged"
    /\ StartsWithError(merge_result)
    /\ idx >= 1 /\ idx < Len(updated_sections)
    /\ updated_sections[idx].name # SUBTITLE
    /\ updated_sections[idx + 1].name # SUBTITLE
    /\ Contains(merge_result, updated_sections[idx].name)
    /\ HeaderCount(output_file, updated_sections[idx].name) = 0
    /\ HeaderCount(output_file, updated_sections[idx + 1].name) = 1

\* The merge returned the section-not-found error at a key that follows a
\* section key it had already replaced.
AbortedAfterReplacing ==
    /\ pc = "merged"
    /\ idx \in 1..Len(updated_sections)
    /\ merge_result = ReplaceError(updated_sections[idx].name)
    /\ \E j \in 1..(idx - 1) : updated_sections[j].name # SUBTITLE

\* C4 as stated: after such an abort the sections replaced before the failure
\* remain applied in the document the merge leaves behind.
C4_EarlierReplacementsRemain ==
    AbortedAfterReplacing
    => \A j \in 1..(idx - 1) :
           updated_sections[j].name # SUBTITLE
           => extract_section(output_file, updated_sections[j].name)
                  = extract_section(updated_sections[j].content, updated_sections[j].name)

\* C4 amended: after such an abort merge_sections has written nothing; the
\* file at the output path is still the text the merge read.
C4_AbortWritesNothing ==
    AbortedAfterReplacing => output_file = original_resume

C4_Witness ==
    /\ AbortedAfterReplacing
    /\ latex = merge_result
    /\ \E j \in 1..(idx - 1) :
           /\ updated_sections[j].name # SUBTITLE
           /\ HeaderCount(output_file, updated_sections[j].name) = 1
           /\ ~Contains(output_file, "Python")

HasSubtitleDef(text) == \E i \in 1..Len(text) : text[i] \in SubtitleDefs

\* C5: with the subtitle key in the map and no \def \subtitle {...} in the
\* document, the merge returns the subtitle-definition-missing error, inserts
\* no definition and replaces no section.
C5_SubtitleMissingAborts ==
    (pc = "merged" /\ HasKey(updated_sections, SUBTITLE) /\ ~HasSubtitleDef(original_resume))
    => /\ merge_result = SubtitleError
       /\ output_file = original_resume
       /\ ~HasSubtitleDef(output_file)

C5_Witness ==
    /\ pc = "merged"
    /\ Len(updated_sections) = 2
    /\ updated_sections[1].name = SUBTITLE
    /\ HeaderCount(original_resume, updated_sections[2].name) = 1
    /\ ~HasSubtitleDef(original_resume)
    /\ merge_result = SubtitleError

\* The block of the first section `name` of text: its header up to the next
\* header or \end{document}, or to the end of the text when neither follows.
BlockOf(text, name) ==
    LET start == SectionStart(text, name)
        end == Find(text, Headers \cup {EndDocument}, start + 1)
    IN  Slice(text, start, IF end = 0 THEN Len(text) ELSE end - 1)

\* C6: the dedup step turns a document with k > 1 Technical Proficiencies
\* headers into one with exactly one, whose block is the first original block,
\* wherever the later occurrences sit, with or without \end{document}.
C6_DedupKeepsOnlyFirst ==
    (pc = "deduplicated" /\ HeaderCount(output_file, TP) > 1)
    => /\ HeaderCount(latex, TP) = 1
       /\ BlockOf(latex, TP) = BlockOf(output_file, TP)

\* C7: when Technical Proficiencies precedes Professional Experience (one
\* header of each), after the reposition step the block of Technical
\* Proficiencies comes after the block of Professional Experience, before any
\* other header.
C7_RepositionedAfterAnchor ==
    (pc = "repositioned"
        /\ HeaderCount(output_file, TP) = 1
        /\ HeaderCount(output_file, PE) = 1
        /\ SectionStart(output_file, TP) < SectionStart(output_file, PE))
    => /\ SectionStart(latex, PE) < SectionStart(latex, TP)
       /\ Find(latex, Headers, SectionStart(latex, PE) + 1) = SectionStart(latex, TP)

\* C8: _post_merge_cleanup applied to its own output returns it unchanged.
C8_CleanupIdempotent ==
    [][(pc = "cleaned" /\ pc' = "cleaned_again") => output_file' = output_file]_vars

\* A match of r"\\textbf\{[^}]*\}" in text.
HasTextbfWrapper(text) ==
    \E i \in 1..Len(text) :
        /\ text[i] = TextbfOpen
        /\ \E j \in (i + 1)..Len(text) :
               /\ text[j] = CloseBrace
               /\ \A k \in (i + 1)..(j - 1) : ~HasCloseBrace(text[k])

\* C9: the normalized Technical Proficiencies text has no \textbf{...} wrapper.
C9_NoTextbfInSkills ==
    pc = "parsed"
    => \A i \in 1..Len(updated_sections) :
           updated_sections[i].name = TP => ~HasTextbfWrapper(updated_sections[i].content)

\* A numeric year-count phrase (digits, optional '+', then years) in text.
HasYearCount(text) == \E i \in 1..Len(text) : YearCountEnd(text, i) # 0

\* C10: the normalized Professional Summary has no numeric year-count phrase.
C10_NoYearCountInSummary ==
    pc = "parsed"
    => \A i \in 1..Len(updated_sections) :
           updated_sections[i].name = PS => ~HasYearCount(updated_sections[i].content)

\* C11: a document with exactly one more '{' than '}' is reported invalid with
\* a brace mismatch of 1; in general a brace error is reported exactly when the
\* counts differ, and it gives their absolute difference.
C11_BraceMismatchReported ==
    pc = "validated"
    => LET open_braces == Sum([i \in 1..Len(latex) |-> OpenBraces(latex[i])])
           close_braces == Sum([i \in 1..Len(latex) |-> CloseBraces(latex[i])])
           reported == {e \in validation.errors : e[1] = "Unbalanced curly braces"}
       IN  /\ open_braces = close_braces + 1
              => ~validation.is_valid
                 /\ reported = {<<"Unbalanced curly braces", 1, "extra {">>}
           /\ open_braces # close_braces
              => ~validation.is_valid
                 /\ \E e \in reported :
                        reported = {e} /\ e[2] = AbsDiff(open_braces, close_braces)
           /\ open_braces = close_braces => reported = {}

C11_Witness ==
    /\ pc = "validated"
    /\ Count(latex, {OpenBrace}) = 1
    /\ Count(latex, {CloseBrace}) = 0
    /\ Contains(latex, BeginDocument) /\ Contains(latex, EndDocument)
    /\ validation.errors = {<<"Unbalanced curly braces", 1, "extra {">>}
    /\ ~validation.is_valid

\* C12: the validator passes a document only when it has exactly one
\* \begin{document} and exactly one \end{document}.
C12_ValidOnlyWithSingleMarkers ==
    (pc = "validated" /\ validation.is_valid)
    => /\ Count(latex, {BeginDocument}) = 1
       /\ Count(latex, {EndDocument}) = 1

\* The class of the first \documentclass declaration of text, "" when none.
DeclaredClass(text) ==
    IF Find(text, ClassLexemes, 1) = 0 THEN ""
    ELSE ClassOf(text[Find(text, ClassLexemes, 1)])

Rejected == preflight_error # None

\* The rejection message ends with the list of every package the document
\* declares, each once, or with 'none'.
ListsAllPackages ==
    LET n == Len(preflight_error)
        declared == UNION {{PackagesOf(original_resume[i])[k] :
                               k \in 1..Len(PackagesOf(original_resume[i]))} :
                           i \in 1..Len(original_resume)}
    IN  /\ n >= 3
        /\ preflight_error[n - 2] = "Packages detected: "
        /\ preflight_error[n] = "."
        /\ LET listed == preflight_error[n - 1]
           IN  IF declared = {} THEN listed = <<"none">>
               ELSE /\ {listed[k] : k \in 1..Len(listed)} = declared
                    /\ Len(listed) = Cardinality(declared)

C14_RejectsIffBothSectionsMissing ==
    (pc = "preflighted"
        /\ Lower(DeclaredClass(original_resume)) = "article"
        /\ ~Contains(original_resume, InputFile))
    => (Rejected <=> (~Contains(original_resume, Header(PS))
                        /\ ~Contains(original_resume, Header(TP))))

C14_Witness ==
    /\ pc = "preflighted"
    /\ DeclaredClass(original_resume) = "article"
    /\ ~Contains(original_resume, InputFile)
    /\ Contains(original_resume, Header(TP))
    /\ ~Contains(original_resume, Header(PS))
    /\ preflight_error = None

\* Where the claim places the span of section `name` in text: from the first
\* header of exactly that name up to, not including, the nearest later header
\* of any name; with no later header, the nearest \end{document} after the
\* header; with neither, the end of the text.
ClaimedStart(text, name) == Min({i \in 1..Len(text) : text[i] = Header(name)})

ClaimedEnd(text, name) ==
    LET s == ClaimedStart(text, name)
        later == {j \in (s + 1)..Len(text) : text[j] \in Headers}
        markers == {j \in (s + 1)..Len(text) : text[j] = EndDocument}
    IN  IF later # {} THEN Min(later)
        ELSE IF markers # {} THEN Min(markers)
        ELSE Len(text) + 1

\* C19: the span that extract_section returns (stripped) and that
\* replace_section replaces starts at the first header with exactly the given
\* name and ends, exclusively, at the next header of any name, else at
\* \end{document}, else at the end of the document.
C19_SpanBounds ==
    LET name == extracted[1].name
        D == original_resume
    IN  /\ (pc \in {"extracted", "replaced"} /\ HeaderCount(D, name) > 0)
           => extracted[1].content
                  = Strip(Slice(D, ClaimedStart(D, name), ClaimedEnd(D, name) - 1))
        /\ (pc \in {"extracted", "replaced"} /\ HeaderCount(D, name) = 0)
           => extracted[1].content = SectionNotFound(name)
        /\ (pc = "replaced" /\ HeaderCount(D, name) > 0)
           => latex = Slice(D, 1, ClaimedStart(D, name) - 1)
                      \o extracted[1].content \o <<NL, NL>>
                      \o Slice(D, ClaimedEnd(D, name), Len(D))

\* A lower-case header precedes the section, \end{document} lies inside the
\* span and another header ends it.
C19_Witness ==
    /\ pc = "replaced"
    /\ extracted[1].name = PS
    /\ Len(original_resume) = 5
    /\ original_resume[1] = HeaderLower
    /\ original_resume[2] = Header(PS)
    /\ original_resume[3] = EndDocument
    /\ original_resume[4] = "Go"
    /\ original_resume[5] = Header(TP)
    /\ extracted[1].content = <<Header(PS), EndDocument, "Go">>
    /\ latex = <<HeaderLower, Header(PS), EndDocument, "Go", NL, NL, Header(TP)>>

\* None of the patterns of the normalizer's rules occurs in text: no label, no
\* \section, no \textbf, no year count, no structural command, no run of three
\* newlines.
PatternFree(text) ==
    /\ \A i \in 1..Len(text) :
           text[i] \notin Labels \cup Headers
                          \cup {TextbfOpen, ResumeEntryStart, ResumeEntryS, ResumeEntryEnd}
    /\ ~HasYearCount(text)
    /\ \A i \in 1..Len(text) : RunEnd(text, {NL}, i) < i + 2

\* C18: for every section name, a text in which none of the rules' patterns
\* occurs is normalized to itself with leading and trailing whitespace trimmed.
C18_RulesAreNoOpsWithoutPattern ==
    pc = "parsed"
    => \A i \in 1..Len(updated_sections) :
           PatternFree(agent_sections[i].content)
           => updated_sections[i].content = Strip(agent_sections[i].content)

\* C20: whatever the section name, the normalized text does not end with a
\* stray label, and when it contains a \section header nothing precedes the
\* first one.
C20_NoTrailingLabelNoLeadingProse ==
    pc = "parsed"
    => \A i \in 1..Len(updated_sections) :
           LET text == updated_sections[i].content
           IN  /\ (text # <<>> => text[Len(text)] \notin Labels)
               /\ (Find(text, Headers, 1) # 0 => text[1] \in Headers)

\* The merge went through every key of the map and reached its validation.
MergeReachedValidation == pc = "merged" /\ idx > Len(updated_sections)

BracesUnbalanced(text) ==
    Sum([i \in 1..Len(text) |-> OpenBraces(text[i])])
        # Sum([i \in 1..Len(text) |-> CloseBraces(text[i])])

FailsStructuralValidation(text) ==
    \/ BracesUnbalanced(text)
    \/ Count(text, {BeginDocument}) = 0
    \/ Count(text, {EndDocument}) = 0

\* C16: when the merged document fails the structural validation, the merge
\* has still written it to the output file, and what it returns is the report
\* that the file was saved with validation errors, followed by each problem
\* found; it is not a merge error.
C16_ValidationFailureStillWrites ==
    (MergeReachedValidation /\ FailsStructuralValidation(latex))
    => /\ output_file = latex
       /\ ~StartsWithError(merge_result)
       /\ merge_result[1] = MergedWithErrors
       /\ Len(merge_result) > 1
       /\ (BracesUnbalanced(latex)
              <=> \E k \in 2..Len(merge_result) : merge_result[k] = "Unbalanced braces")
       /\ (Count(latex, {EndDocument}) = 0
              <=> \E k \in 2..Len(merge_result) : merge_result[k] = "Missing \\end{document}")

C16_Witness ==
    /\ MergeReachedValidation
    /\ BracesUnbalanced(latex)
    /\ Contains(latex, ResumeEntryS)
    /\ output_file = latex
    /\ output_file # original_resume
    /\ merge_result = <<MergedWithErrors, "Unbalanced braces">>

\* The resume of job j and what preflight_resume says of it.
ResumeOfJob(j) == files[OriginalPath(jobs[j].original_resume_id)]
RejectionOf(j) == preflight_resume(ResumeOfJob(j), TRUE)

\* Positions in the section map of job j of the sections with no header in
\* the job's resume: merge_sections returns the error of the first of them.
MissingOf(j) ==
    {i \in 1..Len(threads[j].updated_sections) :
        /\ threads[j].updated_sections[i].name # SUBTITLE
        /\ HeaderCount(ResumeOfJob(j), threads[j].updated_sections[i].name) = 0}

MergeErrorOf(j) == ReplaceError(threads[j].updated_sections[Min(MissingOf(j))].name)

\* C15: a preflight rejection or a merge error ends the job at once: the step
\* that meets it marks the job failed with exactly that error, and no step of
\* the job runs afterwards.
C15_ErrorsAbortAndSurface ==
    [][\A j \in 1..Len(jobs) :
          /\ (threads[j].pc = "read" /\ threads'[j].pc # "read" /\ RejectionOf(j) # None)
             => /\ threads'[j].pc = "except"
                /\ threads'[j].exc = RejectionOf(j)
                /\ files' = files
          /\ (threads[j].pc = "merge" /\ threads'[j].pc # "merge" /\ MissingOf(j) # {})
             => /\ threads'[j].pc = "except"
                /\ threads'[j].exc = MergeErrorOf(j)
          /\ (threads[j].pc # "done" /\ threads'[j].pc = "done")
             => jobs'[j] = IF threads[j].exc = TimeoutError
                           THEN Failed(jobs[j], TimeoutMessage, TimeoutError)
                           ELSE FailedWith(jobs[j], threads[j].exc)
          /\ threads[j].pc = "done"
             => threads'[j] = threads[j] /\ jobs'[j] = jobs[j]]_vars

\* Job j has copied its resume to its output path.
HasCopied(j) ==
    \/ threads[j].pc \in {"agent", "merge"}
    \/ threads[j].exc \in {TimeoutError, AgentException, TypeError}

\* C17: in every interleaving the document at a job's output path comes from
\* that job's own resume, also when two jobs' company and position sanitize to
\* the same file name.
C17_JobsDoNotInterfere ==
    \A j \in 1..Len(jobs) :
        HasCopied(j) => files[threads[j].output_path] = ResumeOfJob(j)

\* C21: for a map of two section names that both have a header in the
\* document, the merge ends with the same document (or the same error)
\* whichever of the two keys comes first.
C21_KeyOrderIrrelevant ==
    (pc = "merged"
        /\ Len(updated_sections) = 2
        /\ \A i \in 1..2 : updated_sections[i].name # SUBTITLE
                           /\ HeaderCount(original_resume, updated_sections[i].name) > 0)
    => (IF idx > Len(updated_sections) THEN output_file ELSE merge_result)
           = ReplaceFrom(original_resume, <<updated_sections[2], updated_sections[1]>>, 1)

\* The paths under the output directory that hold a document.
OutputPaths == {path \in DOMAIN files : path[1] = DEFAULT_OUTPUT_DIR}

\* C22: for a job whose resume preflight_resume rejects, no section is
\* extracted and the job never gets past the preflight; every document under
\* the output directory was copied there by a job whose resume passed it.
C22_PreflightBeforeExtractionAndWrite ==
    /\ \A j \in 1..Len(jobs) :
           RejectionOf(j) # None
           => /\ threads[j].extracted = <<>>
              /\ threads[j].pc \notin {"copy", "agent", "merge"}
              /\ threads[j].exc \in {None, RejectionOf(j)}
    /\ \A path \in OutputPaths :
           \E k \in 1..Len(jobs) :
               /\ RejectionOf(k) = None
               /\ HasCopied(k)
               /\ threads[k].output_path = path
               /\ files[path] = ResumeOfJob(k)

\* A rejected job has ended failed with the preflight message and there is no
\* document under the output directory.
C22_Witness ==
    /\ Len(jobs) = 1
    /\ threads[1].pc = "done"
    /\ RejectionOf(1) # None
    /\ jobs[1].status = FAILED
    /\ jobs[1].error = RejectionOf(1)
    /\ threads[1].output_path # None
    /\ OutputPaths = {}

\* C23: the validator passes a document exactly when its curly braces balance,
\* its square brackets balance, it has \begin{document} and \end{document},
\* and every environment name, starred ones included, has as many \begin as
\* \end; a missing \documentclass or a malformed \href adds a warning only.
C23_ValidIffStructure ==
    pc = "validated"
    => /\ validation.is_valid
          <=> /\ Sum([i \in 1..Len(latex) |-> OpenBraces(latex[i])])
                    = Sum([i \in 1..Len(latex) |-> CloseBraces(latex[i])])
              /\ Count(latex, {OpenBracket}) = Count(latex, {CloseBracket})
              /\ Contains(latex, BeginDocument) /\ Contains(latex, EndDocument)
              /\ \A env \in Environments :
                     Count(latex, {BeginOf(env)}) = Count(latex, {EndOf(env)})
              \* tabular*: the documents of the model hold no \end{tabular*}
              /\ Count(latex, {BeginTabularStar}) = 0
       /\ \A w \in validation.warnings : w \notin validation.errors

\* C24: when the document holds a \def \subtitle {...} definition, the
\* subtitle update of the merge succeeds for every new value, one equal to
\* the current subtitle included: the text it returns is the document with
\* the definition's argument replaced, never the definition-missing error.
C24_UpdateSubtitleSucceeds ==
    [][(pc = "parsed" /\ pc' # "parsed" /\ output_file # NoFile
           /\ HasKey(updated_sections, SUBTITLE) /\ HasSubtitleDef(output_file))
       => /\ latex' # SubtitleError
          /\ merge_result' # SubtitleError
          /\ latex' = SubSubtitle(output_file, ValueOf(updated_sections, SUBTITLE))
          /\ Contains(latex', SubtitleDef(ValueOf(updated_sections, SUBTITLE)))]_vars

\* C25: no reader of the output directory ever finds an untailored document
\* there: a document under the output directory is never the plain copy of
\* an original resume.
C25_NoUntailoredOutput ==
    \A path \in OutputPaths :
        \A id \in ResumeIds : files[path] # files[OriginalPath(id)]

C26_JobLifecycle ==
    [][/\ \A j \in 1..Len(jobs) :
              jobs[j].status \in {COMPLETED, FAILED} => jobs'[j].status = jobs[j].status
       /\ \A j \in 1..Len(jobs') :
              /\ jobs'[j].completed_at # None <=> jobs'[j].status \in {COMPLETED, FAILED}
              /\ jobs'[j].result # None => jobs'[j].status = COMPLETED
              /\ jobs'[j].error # None => jobs'[j].status = FAILED]_vars

\* C28: every job that was created and handed to process_job ends completed
\* or failed.
C28_EveryJobEnds ==
    \A j \in 1..MaxLiveJobs :
        (Len(jobs) >= j) ~> (/\ Len(jobs) >= j
                             /\ jobs[j].status \in {COMPLETED, FAILED}
                             /\ jobs[j].completed_at # None)

C28_Witness ==
    /\ Len(jobs) = MaxLiveJobs
    /\ \A j \in 1..MaxLiveJobs :
           /\ threads[j].pc = "done"
           /\ jobs[j].status = FAILED
           /\ jobs[j].completed_at # None
    /\ \E j \in 1..MaxLiveJobs : jobs[j].error = TimeoutError

\* merge_sections returned "Successfully merged ..." (with or without
\* validation errors) and the cleanup has not run yet.
MergeSucceeded ==
    /\ pc = "merged"
    /\ merge_result # <<>>
    /\ merge_result[1] \in {MergedOk, MergedWithErrors}

\* C29: after a successful merge_sections, every non-subtitle section name of
\* the map still has a header in the merged document, and extract_section for
\* that name on the merged document returns the replacement content that was
\* supplied for it, trimmed.
C29_MergedSectionsReadBack ==
    MergeSucceeded =>
        \A i \in 1..Len(updated_sections) :
            updated_sections[i].name # SUBTITLE =>
                /\ HeaderCount(output_file, updated_sections[i].name) >= 1
                /\ extract_section(output_file, updated_sections[i].name)
                       = Strip(updated_sections[i].content)

\* The entries of the records given to emit that were formatted and not
\* filtered, in emission order.
EmittedEntries ==
    LET Stored(i) == /\ getMessage(records[i]) # FormatError
                     /\ ~Skipped(getMessage(records[i]))
        kept == SelectSeq([i \in 1..Len(records) |-> i], Stored)
    IN  [k \in 1..Len(kept) |-> LogEntry(records[kept[k]], kept[k])]

\* C30: after any sequence of emit calls on a LogCaptureHandler, the log list
\* stored for its job holds at most LogCap entries, and they are the most
\* recent non-filtered messages in emission order.
C30_LastHundredInOrder ==
    pc = "logging" =>
        /\ Len(logs_store) <= LogCap
        /\ Len(logs_store) = IF Len(EmittedEntries) < LogCap
                             THEN Len(EmittedEntries) ELSE LogCap
        /\ logs_store = SubSeq(EmittedEntries,
                               Len(EmittedEntries) - Len(logs_store) + 1,
                               Len(EmittedEntries))

\* The list is full, older entries were dropped, the last record was stored and
\* a record in between was filtered.
C30_Witness ==
    /\ pc = "logging"
    /\ emits = MaxEmits
    /\ Len(logs_store) = LogCap
    /\ Len(EmittedEntries) > LogCap
    /\ logs_store[LogCap].timestamp = Len(records)
    /\ \E i \in 1..Len(records) : Skipped(getMessage(records[i]))

=============================================================================
